---- MODULE Spec2Model ----
(***************************************************************************)
(* Route reconstruction pipeline of the TDF route extractor (index.js):    *)
(* coordinate conversion, fragment stitching, direction normalisation,     *)
(* rolling-start elimination and endpoint validation, their sequence in    *)
(* processFeature, and the loop over the stages of extractAllStages.       *)
(*                                                                         *)
(* Numbers.  The program computes in IEEE doubles; the model computes in   *)
(* exact rationals <<n, d>> (d > 0, lowest terms), so "equal" below means  *)
(* equal in exact arithmetic.  Inside a function the operands are brought  *)
(* to a common denominator D and the function's own arithmetic is done on  *)
(* the integer numerators.                                                 *)
(*                                                                         *)
(* Geographic points.  A WGS84 point [lon, lat] is the pair <<x, y>> of    *)
(* rationals counted in steps of one fixed angle from a local origin; the  *)
(* angle is the one for which a step of latitude is 3 m on the ground, and *)
(* the origin lies at the latitude whose cosine is 2/3 (48.19 N), so that  *)
(* a step of longitude is 2 m.  The planar projection of index.js works on *)
(* the raw degree values (both axes alike), the great-circle distance      *)
(* weighs the two axes differently; the model keeps that difference.       *)
(***************************************************************************)
EXTENDS Integers, Sequences, FiniteSets, TLC

VARIABLES pc, coordinates, waypoints, options, result,
          finishWaypoint, once, twice,
          webMercator, converted,
          lineStrings, stitched, stitchedSwapped,
          validation,
          feature, calls, gpxCoordinates, savedFiles, processed,
          stageNumber, stageResults, results, errors,
          heap, argument, returned

\* the state of processFeature and of extractAllStages
featureVars == <<validation, feature, calls, gpxCoordinates, savedFiles, processed>>
batchVars == <<stageNumber, stageResults, results, errors>>

\* the arrays in memory, for the calls that are followed array by array
memoryVars == <<heap, argument, returned>>

vars == <<pc, coordinates, waypoints, options, result,
          finishWaypoint, once, twice,
          webMercator, converted,
          lineStrings, stitched, stitchedSwapped,
          featureVars, batchVars, memoryVars>>

(***************************************************************************)
(* Bounds of the model.                                                    *)
(***************************************************************************)
MaxLen == 3
MaxLon == 4
MaxFragments == 2

(***************************************************************************)
(* Exact rational arithmetic.                                              *)
(***************************************************************************)
Abs(n) == IF n < 0 THEN -n ELSE n

RECURSIVE GCD(_, _)
GCD(a, b) == IF b = 0 THEN a ELSE GCD(b, a % b)

Norm(n, d) == LET g == GCD(Abs(n), d) IN <<n \div g, d \div g>>

I(n) == <<n, 1>>
RAdd(a, b) == Norm(a[1] * b[2] + b[1] * a[2], a[2] * b[2])
RSub(a, b) == Norm(a[1] * b[2] - b[1] * a[2], a[2] * b[2])
RMul(a, b) == Norm(a[1] * b[1], a[2] * b[2])
\* comparisons: by cross-multiplication when the denominators are small,
\* else by the integer parts and then the fractional parts over the least
\* common denominator (the same order, without products beyond 32 bits)
Small(d) == d < 32768
Whole(a) == a[1] \div a[2]
Part(a) == a[1] - Whole(a) * a[2]
RLess(a, b) ==
    IF Small(a[2]) /\ Small(b[2])
    THEN a[1] * b[2] < b[1] * a[2]
    ELSE IF Whole(a) # Whole(b)
    THEN Whole(a) < Whole(b)
    ELSE Part(a) * (b[2] \div GCD(a[2], b[2])) < Part(b) * (a[2] \div GCD(a[2], b[2]))
RLeq(a, b) == ~RLess(b, a)

LCM(a, b) == (a * b) \div GCD(a, b)

\* a common denominator of the coordinates of two or three points
Denom2(p, q) == LCM(LCM(p[1][2], p[2][2]), LCM(q[1][2], q[2][2]))
Denom3(p, q, r) == LCM(Denom2(p, q), LCM(r[1][2], r[2][2]))

\* the numerator of the rational a over the denominator D
Over(a, D) == a[1] * (D \div a[2])

\* (variant: halves round down)
MathRoundHalfDown(t) == IF RLess(<<1, 2>>, t) THEN 1 ELSE 0

\* Math.round on a value of [0, 1]: halves round up
MathRound(t) == IF RLeq(<<1, 2>>, t) THEN 1 ELSE 0

(***************************************************************************)
(* Points and sequences.                                                   *)
(***************************************************************************)
Pt(i, j) == <<I(i), I(j)>>

\* the trackpoints and waypoints of the model: two parallels of latitude,
\* 3 m apart, of MaxLon + 1 points 2 m apart each
Grid == {Pt(i, j) : i \in 0..MaxLon, j \in {0, 1}}

SeqsUpTo(S, n) == UNION {[1..k -> S] : k \in 0..n}

\* Array.prototype.slice(k) with a 0-based k
Slice(s, k) == SubSeq(s, k + 1, Len(s))

\* Array.prototype.reverse on a copy
Reverse(s) == [i \in 1..Len(s) |-> s[Len(s) + 1 - i]]

\* a value returned, or an exception thrown (TypeError on undefined / null)
Returned(v) == [threw |-> FALSE, value |-> v]
Thrown == [threw |-> TRUE, value |-> <<>>]

(***************************************************************************)
(* Waypoints of a stage: null, or an object whose start / finish may be    *)
(* missing.                                                                *)
(***************************************************************************)
NoPoint == Pt(0, 0)
NullWaypoints == [isNull |-> TRUE, hasStart |-> FALSE, start |-> NoPoint,
                  hasFinish |-> FALSE, finish |-> NoPoint]
Waypoints(hs, s, hf, f) == [isNull |-> FALSE, hasStart |-> hs, start |-> s,
                            hasFinish |-> hf, finish |-> f]

(***************************************************************************)
(* calculateGPSDistance: haversine distance of two [lat, lon] points.      *)
(* Over the few metres of the model the haversine formula is               *)
(* sqrt((R dLat)^2 + (R cos(lat) dLon)^2); the operator yields the SQUARE  *)
(* of the distance in m^2 (3 m per step of latitude, 2 m per step of       *)
(* longitude), so "distance <= 0.003 km" reads "square <= 3 * 3".          *)
(***************************************************************************)
calculateGPSDistance(point1, point2) ==
    LET D == Denom2(point1, point2)
        lat1 == Over(point1[1], D)
        lon1 == Over(point1[2], D)
        lat2 == Over(point2[1], D)
        lon2 == Over(point2[2], D)
        dLat == lat2 - lat1
        dLon == lon2 - lon1
    IN Norm(3 * 3 * dLat * dLat + 2 * 2 * dLon * dLon, D * D)

\* (variant: the 3 m boundary excluded)
Within3mStrict(distance) == RLess(distance, I(3 * 3))

\* 0.003 km, squared, in m^2
Within3m(distance) == RLeq(distance, I(3 * 3))

(***************************************************************************)
(* projectPointToLineSegment: planar projection of a [lon, lat] point on a *)
(* segment, t clamped to [0, 1].                                           *)
(***************************************************************************)
projectPointToLineSegment(point, lineStart, lineEnd) ==
    LET D == Denom3(point, lineStart, lineEnd)
        px == Over(point[1], D)
        py == Over(point[2], D)
        x1 == Over(lineStart[1], D)
        y1 == Over(lineStart[2], D)
        x2 == Over(lineEnd[1], D)
        y2 == Over(lineEnd[2], D)
        dx == x2 - x1
        dy == y2 - y1
        dpx == px - x1
        dpy == py - y1
        lengthSquared == dx * dx + dy * dy
    IN IF lengthSquared = 0
       THEN [point |-> <<lineStart[1], lineStart[2]>>, t |-> I(0)]
       ELSE LET t == Norm(dpx * dx + dpy * dy, lengthSquared)
                clampedT == IF t[1] < 0 THEN I(0)
                            ELSE IF t[1] > t[2] THEN I(1) ELSE t
                projectedX == Norm(x1 * clampedT[2] + clampedT[1] * dx, D * clampedT[2])
                projectedY == Norm(y1 * clampedT[2] + clampedT[1] * dy, D * clampedT[2])
            IN [point |-> <<projectedX, projectedY>>, t |-> clampedT]

(***************************************************************************)
(* projectPointToLineString: the closest of the projections on every       *)
(* segment.  segmentProjections holds what the loop body computes for each *)
(* segment i (at position i + 1); closestLoop is the loop's running        *)
(* minimum over the iterations i .. n - 1, closestSegmentIndex = -1        *)
(* standing for closestProjection = null and closestDistance = Infinity.   *)
(* The iterations of a loop are run as their first half followed by their  *)
(* second half, so that a route of some hundred points is evaluated at a   *)
(* depth of its logarithm.                                                 *)
(***************************************************************************)
Half(i, n) == (i + n) \div 2

segmentProjections(point, lineString) ==
    [k \in 1..(Len(lineString) - 1) |->
        LET segmentStart == lineString[k]
            segmentEnd == lineString[k + 1]
            projection == projectPointToLineSegment(point, segmentStart, segmentEnd)
            pointLatLon == <<point[2], point[1]>>
            projectionLatLon == <<projection.point[2], projection.point[1]>>
        IN [point |-> projection.point, t |-> projection.t,
            distance |-> calculateGPSDistance(pointLatLon, projectionLatLon)]]

\* (variant: a later segment at the same distance replaces the closest so far)
closerOfLast(projections, closestSegmentIndex, i) ==
    IF RLeq(projections[i + 1].distance,
            projections[closestSegmentIndex + 1].distance)
    THEN i
    ELSE closestSegmentIndex

\* line 479: a later segment replaces the closest so far only when its
\* distance is strictly smaller
closerOf(projections, closestSegmentIndex, i) ==
    IF RLess(projections[i + 1].distance,
             projections[closestSegmentIndex + 1].distance)
    THEN i
    ELSE closestSegmentIndex

RECURSIVE closestLoop(_, _, _)
closestLoop(projections, i, n) ==
    IF ~(i < n)
    THEN -1
    ELSE IF n - i = 1
    THEN i
    ELSE closerOf(projections,
                  closestLoop(projections, i, Half(i, n)),
                  closestLoop(projections, Half(i, n), n))

\* the object returned; closestProjection.point of null throws when there
\* was no segment
closestProjectionOf(projections, closestSegmentIndex) ==
    IF closestSegmentIndex = -1
    THEN Thrown
    ELSE Returned([point |-> projections[closestSegmentIndex + 1].point,
                   distance |-> projections[closestSegmentIndex + 1].distance,
                   segmentIndex |-> closestSegmentIndex,
                   t |-> projections[closestSegmentIndex + 1].t])

projectPointToLineString(point, lineString) ==
    closestProjectionOf(segmentProjections(point, lineString),
                        closestLoop(segmentProjections(point, lineString), 0,
                                    Len(lineString) - 1))

(***************************************************************************)
(* validateRouteDirectionByFinish: reverse the route when its first point  *)
(* is strictly closer to the finish than its last point.  coordinates[0]   *)
(* of an empty array is undefined and indexing it throws.                  *)
(***************************************************************************)
\* (variant: the comparison the wrong way round)
startCloserToFinishSwapped(startToFinishDistance, endToFinishDistance) ==
    RLess(endToFinishDistance, startToFinishDistance)

\* (variant: a tie counts as backwards)
startCloserToFinishOrTie(startToFinishDistance, endToFinishDistance) ==
    RLeq(startToFinishDistance, endToFinishDistance)

\* line 613: startToFinishDistance < endToFinishDistance
startCloserToFinish(startToFinishDistance, endToFinishDistance) ==
    RLess(startToFinishDistance, endToFinishDistance)

validateRouteDirectionByFinish(coords, finish) ==
    IF Len(coords) = 0
    THEN Thrown
    ELSE LET routeStart == coords[1]
             routeEnd == coords[Len(coords)]
             routeStartLatLon == <<routeStart[2], routeStart[1]>>
             routeEndLatLon == <<routeEnd[2], routeEnd[1]>>
             officialFinish == <<finish[2], finish[1]>>
             startToFinishDistance == calculateGPSDistance(routeStartLatLon, officialFinish)
             endToFinishDistance == calculateGPSDistance(routeEndLatLon, officialFinish)
         IN IF startCloserToFinish(startToFinishDistance, endToFinishDistance)
            THEN Returned(Reverse(coords))
            ELSE Returned(coords)

(***************************************************************************)
(* eliminateRollingStart.                                                  *)
(***************************************************************************)
\* lines 650-655: the body of the scan for trackpoint i
trackPointWithin3m(coords, officialStartLatLon, i) ==
    LET trackPoint == coords[i + 1]
        trackPointLatLon == <<trackPoint[2], trackPoint[1]>>
        distance == calculateGPSDistance(trackPointLatLon, officialStartLatLon)
    IN Within3m(distance)

\* (variant: the scan without its break, which ends on the last such point)
RECURSIVE trueStartLoopNoBreak(_, _, _, _)
trueStartLoopNoBreak(coords, officialStartLatLon, i, n) ==
    IF ~(i < n)
    THEN -1
    ELSE IF n - i = 1
    THEN (IF trackPointWithin3m(coords, officialStartLatLon, i) THEN i ELSE -1)
    ELSE IF trueStartLoopNoBreak(coords, officialStartLatLon, Half(i, n), n) # -1
    THEN trueStartLoopNoBreak(coords, officialStartLatLon, Half(i, n), n)
    ELSE trueStartLoopNoBreak(coords, officialStartLatLon, i, Half(i, n))

\* the scan of the trackpoints i .. n - 1 for the first one within 3 m; -1
\* when there is none.  The break: the second half is not scanned once the
\* first half has found one.
RECURSIVE trueStartLoop(_, _, _, _)
trueStartLoop(coords, officialStartLatLon, i, n) ==
    IF ~(i < n)
    THEN -1
    ELSE IF n - i = 1
    THEN (IF trackPointWithin3m(coords, officialStartLatLon, i) THEN i ELSE -1)
    ELSE IF trueStartLoop(coords, officialStartLatLon, i, Half(i, n)) # -1
    THEN trueStartLoop(coords, officialStartLatLon, i, Half(i, n))
    ELSE trueStartLoop(coords, officialStartLatLon, Half(i, n), n)

\* (variant: the slice starts one past the inserted point)
spliceAndTrimPastInserted(coords, insertionIndex, point) ==
    LET modifiedCoordinates == SubSeq(coords, 1, insertionIndex) \o <<point>>
                                   \o Slice(coords, insertionIndex)
    IN Slice(modifiedCoordinates, insertionIndex + 1)

\* splice(insertionIndex, 0, point) on a copy, then slice(insertionIndex)
spliceAndTrim(coords, insertionIndex, point) ==
    LET modifiedCoordinates == SubSeq(coords, 1, insertionIndex) \o <<point>>
                                   \o Slice(coords, insertionIndex)
    IN Slice(modifiedCoordinates, insertionIndex)

\* lines 663-688: the projection fallback, given the projection
insertProjectedStart(coords, projection) ==
    IF projection.threw
    THEN Thrown
    ELSE Returned(spliceAndTrim(coords,
                      projection.value.segmentIndex + MathRound(projection.value.t),
                      projection.value.point))

\* (variant: the slice starts one past the true start)
trimFromPastTrueStart(coords, officialStart, trueStartIndex) ==
    IF trueStartIndex = -1
    THEN insertProjectedStart(coords, projectPointToLineString(officialStart, coords))
    ELSE Returned(Slice(coords, trueStartIndex + 1))

\* lines 663-695: the two ways of trimming, given the result of the scan
trimFrom(coords, officialStart, trueStartIndex) ==
    IF trueStartIndex = -1
    THEN insertProjectedStart(coords, projectPointToLineString(officialStart, coords))
    ELSE Returned(Slice(coords, trueStartIndex))

\* lines 633-696: the trim against a start waypoint that is present;
\* coordinates[0] of an empty array is undefined and indexing it throws
trimToOfficialStart(coords, officialStart) ==
    IF Len(coords) = 0
    THEN Thrown
    ELSE LET officialStartLatLon == <<officialStart[2], officialStart[1]>>
             routeStart == coords[1]
             routeStartLatLon == <<routeStart[2], routeStart[1]>>
             startDistance == calculateGPSDistance(routeStartLatLon, officialStartLatLon)
         IN IF Within3m(startDistance)
            THEN Returned(coords)
            ELSE trimFrom(coords, officialStart,
                          trueStartLoop(coords, officialStartLatLon, 0, Len(coords)))

\* (variant: the keepRollingStart option is not consulted)
eliminateRollingStartNoOptOut(coords, wps, opts) ==
    IF wps.isNull \/ ~wps.hasStart
    THEN Returned(coords)
    ELSE trimToOfficialStart(coords, wps.start)

eliminateRollingStart(coords, wps, opts) ==
    IF opts.keepRollingStart
    THEN Returned(coords)
    ELSE IF wps.isNull \/ ~wps.hasStart
    THEN Returned(coords)
    ELSE trimToOfficialStart(coords, wps.start)

(***************************************************************************)
(* Rolling-start elimination on every route of up to MaxLen grid points,   *)
(* every start waypoint (or none) and both settings of keepRollingStart.   *)
(***************************************************************************)
NoResult == Returned(<<>>)

\* the parts of the state that a specification of one function leaves alone
NoValidation == [reported |-> FALSE, startWarning |-> FALSE, endWarning |-> FALSE]
NoFeature == [hasGeometry |-> FALSE, hasCoordinates |-> FALSE, type |-> "none",
              coordinates |-> <<>>]

IdleFeature ==
    /\ validation = Returned(NoValidation)
    /\ feature = NoFeature
    /\ calls = <<>>
    /\ gpxCoordinates = NoResult
    /\ savedFiles = <<>>
    /\ processed = NoResult

IdleBatch ==
    /\ stageNumber = 0
    /\ stageResults = Returned(<<>>)
    /\ results = <<>>
    /\ errors = <<>>

IdleMemory ==
    /\ heap = <<>>
    /\ argument = 0
    /\ returned = 0

TrimWaypoints == {NullWaypoints, Waypoints(FALSE, NoPoint, FALSE, NoPoint)}
                    \cup {Waypoints(TRUE, s, FALSE, NoPoint) : s \in Grid}

InitTrim ==
    /\ pc = "trim"
    /\ coordinates \in SeqsUpTo(Grid, MaxLen)
    /\ waypoints \in TrimWaypoints
    /\ options \in [keepRollingStart : BOOLEAN]
    /\ result = NoResult
    /\ finishWaypoint = NoPoint
    /\ once = NoResult
    /\ twice = NoResult
    /\ webMercator = <<>>
    /\ converted = <<>>
    /\ lineStrings = <<>>
    /\ stitched = NoResult
    /\ stitchedSwapped = NoResult
    /\ IdleFeature /\ IdleBatch /\ IdleMemory

EliminateRollingStart ==
    /\ pc = "trim"
    /\ result' = eliminateRollingStart(coordinates, waypoints, options)
    /\ pc' = "trimmed"
    /\ UNCHANGED <<coordinates, waypoints, options, finishWaypoint, once, twice,
                   webMercator, converted, lineStrings, stitched, stitchedSwapped>>
    /\ UNCHANGED <<featureVars, batchVars, memoryVars>>

NextTrim == EliminateRollingStart

SpecTrim == InitTrim /\ [][NextTrim]_vars

(***************************************************************************)
(* Properties of rolling-start elimination (SpecTrim).                     *)
(***************************************************************************)
\* the great-circle distance of two [lon, lat] points is at most 3 m
AtMost3m(p, q) ==
    RLeq(calculateGPSDistance(<<p[2], p[1]>>, <<q[2], q[1]>>), I(9))

StartPresent == ~waypoints.isNull /\ waypoints.hasStart

\* the 1-based positions of the trackpoints within 3 m of the start waypoint
NearIndices == {i \in 1..Len(coordinates) : AtMost3m(coordinates[i], waypoints.start)}

\* p lies on the closed segment from a to b (exactly)
OnSegment(p, a, b) ==
    LET D == Denom3(p, a, b)
        dx == Over(b[1], D) - Over(a[1], D)
        dy == Over(b[2], D) - Over(a[2], D)
        ex == Over(p[1], D) - Over(a[1], D)
        ey == Over(p[2], D) - Over(a[2], D)
        dot == ex * dx + ey * dy
    IN /\ dx * ey = dy * ex
       /\ 0 <= dot
       /\ dot <= dx * dx + dy * dy
       /\ (a = b => p = a)

SegmentsWithStart ==
    {i \in 1..(Len(coordinates) - 1) :
        OnSegment(waypoints.start, coordinates[i], coordinates[i + 1])}

\* the trim ran with the option unset, a start waypoint, and returned
Trimmed ==
    /\ pc = "trimmed"
    /\ ~options.keepRollingStart
    /\ StartPresent
    /\ ~result.threw

\* the trim took the projection fallback: no trackpoint within 3 m
FellBack == Trimmed /\ NearIndices = {}

\* C1: with keepRollingStart unset and a start waypoint, the returned route
\* begins at the official start: within 3 m of it when a trackpoint is used,
\* exactly on it (distance 0) when the projection fallback is used, also
\* when the start waypoint does not lie on the route polyline.
C1_StartsAtOfficialStart ==
    Trimmed =>
        IF NearIndices # {}
        THEN AtMost3m(result.value[1], waypoints.start)
        ELSE result.value[1] = waypoints.start

\* C6: a route whose first point is within 3 m (inclusive) of the start
\* waypoint is returned as it is.
C6_NearStartUnchanged ==
    (/\ pc = "trimmed"
     /\ StartPresent
     /\ Len(coordinates) > 0
     /\ AtMost3m(coordinates[1], waypoints.start))
        => (~result.threw /\ result.value = coordinates)

\* the first point is exactly 3 m (one step of latitude) from the start
C6_Witness ==
    /\ Trimmed
    /\ Len(coordinates) = 3
    /\ calculateGPSDistance(<<coordinates[1][2], coordinates[1][1]>>,
                            <<waypoints.start[2], waypoints.start[1]>>) = I(9)
    /\ result.value = coordinates

\* C7: when the first point is more than 3 m from the start waypoint and
\* some point is within 3 m, the result is the suffix of the route that
\* begins at the first such point.
C7_SuffixFromFirstNear ==
    (/\ Trimmed
     /\ NearIndices # {}
     /\ 1 \notin NearIndices)
        => LET k == CHOOSE i \in NearIndices : \A j \in NearIndices : i <= j
           IN result.value = [i \in 1..(Len(coordinates) - k + 1) |->
                                  coordinates[k + i - 1]]

\* two points are within 3 m and the first of them is the second trackpoint
C7_Witness ==
    /\ Trimmed
    /\ NearIndices = {2, 3}
    /\ coordinates[2] # coordinates[3]
    /\ result.value = <<coordinates[2], coordinates[3]>>

\* C8: when the start waypoint lies exactly on a segment of the route and
\* more than 3 m from every trackpoint, exactly one point is inserted, it
\* equals the start waypoint and comes first, and the rest of the result
\* is original trackpoints (a suffix of the route).
C8_ProjectionInsertsStart ==
    (/\ pc = "trimmed"
     /\ ~options.keepRollingStart
     /\ StartPresent
     /\ NearIndices = {}
     /\ SegmentsWithStart # {})
        => /\ ~result.threw
           /\ result.value[1] = waypoints.start
           /\ \E k \in 1..Len(coordinates) :
                 Tail(result.value) = SubSeq(coordinates, k, Len(coordinates))

\* the start waypoint is the middle of the second segment, 4 m from its ends
C8_Witness ==
    /\ FellBack
    /\ SegmentsWithStart = {2}
    /\ coordinates = <<Pt(0, 1), Pt(0, 0), Pt(4, 0)>>
    /\ waypoints.start = Pt(2, 0)
    /\ result.value = <<Pt(2, 0), Pt(4, 0)>>

\* C9: in the projection fallback no trackpoint that precedes the projected
\* start on the polyline is kept: when 0 < t < 1 the second point of the
\* result is the far endpoint of the segment projected onto.
C9_NoPointBeforeProjectedStart ==
    FellBack =>
        LET projection == projectPointToLineString(waypoints.start, coordinates).value
        IN (RLess(I(0), projection.t) /\ RLess(projection.t, I(1)))
              => result.value[2] = coordinates[projection.segmentIndex + 2]

\* C10: with keepRollingStart set the route is returned as it is, whatever
\* the start waypoint.
C10_KeepReturnsInput ==
    (pc = "trimmed" /\ options.keepRollingStart)
        => (~result.threw /\ result.value = coordinates)

\* the option is set and the start waypoint is far from the first point and
\* within 3 m of a later one
C10_Witness ==
    /\ pc = "trimmed"
    /\ options.keepRollingStart
    /\ StartPresent
    /\ Len(coordinates) = 3
    /\ NearIndices = {3}
    /\ result.value = coordinates

(***************************************************************************)
(* Direction normalisation, applied to a route and then to its own output, *)
(* on every route of up to MaxLen grid points and every finish waypoint.   *)
(***************************************************************************)
InitDir ==
    /\ pc = "dir"
    /\ coordinates \in SeqsUpTo(Grid, MaxLen)
    /\ finishWaypoint \in Grid
    /\ once = NoResult
    /\ twice = NoResult
    /\ waypoints = NullWaypoints
    /\ options = [keepRollingStart |-> FALSE]
    /\ result = NoResult
    /\ webMercator = <<>>
    /\ converted = <<>>
    /\ lineStrings = <<>>
    /\ stitched = NoResult
    /\ stitchedSwapped = NoResult
    /\ IdleFeature /\ IdleBatch /\ IdleMemory

NormalizeOnce ==
    /\ pc = "dir"
    /\ once' = validateRouteDirectionByFinish(coordinates, finishWaypoint)
    /\ pc' = "dirOnce"
    /\ UNCHANGED <<coordinates, waypoints, options, result, finishWaypoint, twice,
                   webMercator, converted, lineStrings, stitched, stitchedSwapped>>
    /\ UNCHANGED <<featureVars, batchVars, memoryVars>>

NormalizeTwice ==
    /\ pc = "dirOnce"
    /\ ~once.threw
    /\ twice' = validateRouteDirectionByFinish(once.value, finishWaypoint)
    /\ pc' = "dirTwice"
    /\ UNCHANGED <<coordinates, waypoints, options, result, finishWaypoint, once,
                   webMercator, converted, lineStrings, stitched, stitchedSwapped>>
    /\ UNCHANGED <<featureVars, batchVars, memoryVars>>

NextDir == NormalizeOnce \/ NormalizeTwice

SpecDir == InitDir /\ [][NextDir]_vars

\* the squared great-circle distance of a [lon, lat] point to the finish
ToFinish(p) ==
    calculateGPSDistance(<<p[2], p[1]>>, <<finishWaypoint[2], finishWaypoint[1]>>)

FirstStrictlyCloser ==
    RLess(ToFinish(coordinates[1]), ToFinish(coordinates[Len(coordinates)]))

\* C4: the route is returned reversed exactly when its first point is
\* strictly closer to the finish than its last point, and in its own order
\* in every other case (ties included).
C4_ReversedIffFirstCloser ==
    (pc \in {"dirOnce", "dirTwice"} /\ Len(coordinates) > 0)
        => /\ ~once.threw
           /\ Len(once.value) = Len(coordinates)
           /\ \A i \in 1..Len(coordinates) :
                 once.value[i] = IF FirstStrictlyCloser
                                 THEN coordinates[Len(coordinates) + 1 - i]
                                 ELSE coordinates[i]

\* a route of three distinct points that begins nearer the finish, reversed
C4_Witness ==
    /\ pc = "dirOnce"
    /\ Len(coordinates) = 3
    /\ Cardinality({coordinates[i] : i \in 1..3}) = 3
    /\ FirstStrictlyCloser
    /\ once.value = <<coordinates[3], coordinates[2], coordinates[1]>>

\* C5: direction normalisation is idempotent on non-empty routes.
C5_DirectionIdempotent ==
    (pc = "dirTwice" /\ Len(coordinates) > 0)
        => (~twice.threw /\ twice.value = once.value)

\* the first application reversed the route, the second left it alone
C5_Witness ==
    /\ pc = "dirTwice"
    /\ Len(coordinates) = 3
    /\ once.value # coordinates
    /\ twice.value = once.value

(***************************************************************************)
(* convertWebMercatorToWGS84.  Web Mercator points are pairs <<x, y>> of   *)
(* integers (metres); the converted [lon, lat] are integers in units of    *)
(* 10^-6 degree.  The two formulas are tabulated on the sample abscissas   *)
(* and ordinates (values of the double computation, rounded to 10^-6       *)
(* degree); the samples straddle each edge of the bounds and contain the   *)
(* first point of the conversion test of test.js.  The further abscissas   *)
(* 222639 + 3 k and the ordinate 6138470 are the points of a parallel near *)
(* 48.19 N, 27 * 10^-6 degree (one step, 2 m on the ground) apart for each *)
(* 3 m of projected x.                                                     *)
(***************************************************************************)
SampleX == {-556598, -556597, -244678, 1113194, 1113195}
SampleY == {5012341, 5012342, 6138288, 6800125, 6800126}

\* line 394: lon = (x / 20037508.34) * 180
lonOfX(x) ==
    CASE x = -556598 -> -5000005
      [] x = -556597 -> -4999996
      [] x = -244678 -> -2197980
      [] x = 1113194 -> 9999992
      [] x = 1113195 -> 10000001
      [] x = 222639 -> 2000000
      [] x = 222642 -> 2000027
      [] x = 222645 -> 2000054
      [] x = 222648 -> 2000081
      [] x = 222657 -> 2000162

\* line 395: lat = (atan(exp((y / 20037508.34) * PI)) - PI / 4) * 2 * (180 / PI)
latOfY(y) ==
    CASE y = 5012341 -> 40999996
      [] y = 5012342 -> 41000002
      [] y = 6138288 -> 48188596
      [] y = 6800125 -> 51999997
      [] y = 6800126 -> 52000003
      [] y = 6138470 -> 48189686

Degrees(n) == n * 1000000

\* (variant: the northern edge is not tested)
inFranceBoundsNoNorthEdge(lon, lat) ==
    lon >= Degrees(-5) /\ lon <= Degrees(10) /\ lat >= Degrees(41)

\* line 398: lon >= -5 && lon <= 10 && lat >= 41 && lat <= 52
inFranceBounds(lon, lat) ==
    lon >= Degrees(-5) /\ lon <= Degrees(10) /\ lat >= Degrees(41) /\ lat <= Degrees(52)

\* the for-of loop, from 0-based position i with the array built so far
\* lines 392-400: what the loop body pushes for coordinate i
convertedPoint(coords, i) ==
    LET x == coords[i + 1][1]
        y == coords[i + 1][2]
        lon == lonOfX(x)
        lat == latOfY(y)
    IN IF inFranceBounds(lon, lat)
       THEN << <<lon, lat>> >>
       ELSE <<>>

\* the points pushed by the iterations i .. n - 1, in their order
RECURSIVE convertLoop(_, _, _)
convertLoop(coords, i, n) ==
    IF ~(i < n)
    THEN <<>>
    ELSE IF n - i = 1
    THEN convertedPoint(coords, i)
    ELSE convertLoop(coords, i, Half(i, n)) \o convertLoop(coords, Half(i, n), n)

convertWebMercatorToWGS84(coords) == convertLoop(coords, 0, Len(coords))

(***************************************************************************)
(* Conversion of every sequence of up to MaxLen sample points.             *)
(***************************************************************************)
InitConv ==
    /\ pc = "conv"
    /\ webMercator \in SeqsUpTo(SampleX \X SampleY, MaxLen)
    /\ converted = <<>>
    /\ coordinates = <<>>
    /\ waypoints = NullWaypoints
    /\ options = [keepRollingStart |-> FALSE]
    /\ result = NoResult
    /\ finishWaypoint = NoPoint
    /\ once = NoResult
    /\ twice = NoResult
    /\ lineStrings = <<>>
    /\ stitched = NoResult
    /\ stitchedSwapped = NoResult
    /\ IdleFeature /\ IdleBatch /\ IdleMemory

ConvertWebMercatorToWGS84 ==
    /\ pc = "conv"
    /\ converted' = convertWebMercatorToWGS84(webMercator)
    /\ pc' = "convDone"
    /\ UNCHANGED <<coordinates, waypoints, options, result, finishWaypoint, once,
                   twice, webMercator, lineStrings, stitched, stitchedSwapped>>
    /\ UNCHANGED <<featureVars, batchVars, memoryVars>>

NextConv == ConvertWebMercatorToWGS84

SpecConv == InitConv /\ [][NextConv]_vars

\* the converted value of the i-th input point
ConvertedAt(i) == <<lonOfX(webMercator[i][1]), latOfY(webMercator[i][2])>>

\* the positions of the input points whose converted value is in the box
InBoxIndices ==
    {i \in 1..Len(webMercator) :
        /\ ConvertedAt(i)[1] >= -5000000 /\ ConvertedAt(i)[1] <= 10000000
        /\ ConvertedAt(i)[2] >= 41000000 /\ ConvertedAt(i)[2] <= 52000000}

\* the k-th smallest in-box position
KthInBox(k) ==
    CHOOSE i \in InBoxIndices : Cardinality({j \in InBoxIndices : j <= i}) = k

\* C3: the output of the conversion is exactly the in-box points of the
\* input, converted, in their original order: nothing out of the box,
\* nothing dropped, nothing inserted or reordered.
C3_ConversionKeepsInBoxInOrder ==
    pc = "convDone" =>
        /\ Len(converted) = Cardinality(InBoxIndices)
        /\ Len(converted) <= Len(webMercator)
        /\ \A k \in 1..Len(converted) : converted[k] = ConvertedAt(KthInBox(k))

\* the middle point of three is out of the box and the two others are kept
C3_Witness ==
    /\ pc = "convDone"
    /\ Len(webMercator) = 3
    /\ InBoxIndices = {1, 3}
    /\ ConvertedAt(1) # ConvertedAt(3)
    /\ converted = <<ConvertedAt(1), ConvertedAt(3)>>

(***************************************************************************)
(* Fragment stitching.  calculateDistance is the planar distance of the    *)
(* raw numbers of two points; it yields the SQUARE here, so "distance <=   *)
(* maxDistance" reads "square <= maxDistance * maxDistance".               *)
(***************************************************************************)
calculateDistance(point1, point2) ==
    LET D == Denom2(point1, point2)
        x1 == Over(point1[1], D)
        y1 == Over(point1[2], D)
        x2 == Over(point2[1], D)
        y2 == Over(point2[2], D)
    IN Norm((x2 - x1) * (x2 - x1) + (y2 - y1) * (y2 - y1), D * D)

\* line 494: maxDistance = 10
maxDistance == 10

\* line 496: ls.length > 100
significantLength == 100

\* filter(ls => ls.length > 100)
RECURSIVE significantOf(_)
significantOf(lss) ==
    IF lss = <<>> THEN <<>>
    ELSE IF Len(Head(lss)) > significantLength
    THEN <<Head(lss)>> \o significantOf(Tail(lss))
    ELSE significantOf(Tail(lss))

\* find(d => d.distance <= maxDistance) from 0-based position i
RECURSIVE findClose(_, _)
findClose(distances, i) ==
    IF ~(i < Len(distances))
    THEN [found |-> FALSE, type |-> "none", distance |-> I(0)]
    ELSE IF RLeq(distances[i + 1].distance, I(maxDistance * maxDistance))
    THEN [found |-> TRUE, type |-> distances[i + 1].type,
          distance |-> distances[i + 1].distance]
    ELSE findClose(distances, i + 1)

\* Array.prototype.sort((a, b) => b.length - a.length): stable, longest first
RECURSIVE InsertByLength(_, _)
InsertByLength(sorted, ls) ==
    IF sorted = <<>> THEN <<ls>>
    ELSE IF Len(Head(sorted)) >= Len(ls)
    THEN <<Head(sorted)>> \o InsertByLength(Tail(sorted), ls)
    ELSE <<ls>> \o sorted

RECURSIVE SortByLengthDesc(_)
SortByLengthDesc(s) ==
    IF s = <<>> THEN <<>>
    ELSE InsertByLength(SortByLengthDesc(SubSeq(s, 1, Len(s) - 1)), s[Len(s)])

\* the four endpoint distances of a pair, and the first within maxDistance
closeConnectionOf(ls1, ls2) ==
    LET ls1Start == ls1[1]
        ls1End == ls1[Len(ls1)]
        ls2Start == ls2[1]
        ls2End == ls2[Len(ls2)]
        distances == << [type |-> "start-start", distance |-> calculateDistance(ls1Start, ls2Start)],
                        [type |-> "start-end", distance |-> calculateDistance(ls1Start, ls2End)],
                        [type |-> "end-start", distance |-> calculateDistance(ls1End, ls2Start)],
                        [type |-> "end-end", distance |-> calculateDistance(ls1End, ls2End)] >>
    IN findClose(distances, 0)

\* the two nested loops over the significant fragments, i < j (0-based)
RECURSIVE connectableLoop(_, _, _, _)
connectableLoop(significant, i, j, connectable) ==
    IF ~(i < Len(significant))
    THEN connectable
    ELSE IF ~(j < Len(significant))
    THEN connectableLoop(significant, i + 1, i + 2, connectable)
    ELSE LET ls1 == significant[i + 1]
             ls2 == significant[j + 1]
             closeConnection == closeConnectionOf(ls1, ls2)
         IN IF closeConnection.found
            THEN connectableLoop(significant, i, j + 1,
                     Append(connectable,
                            [index1 |-> i, index2 |-> j,
                             lineString1 |-> ls1, lineString2 |-> ls2,
                             connection |-> [type |-> closeConnection.type,
                                             distance |-> closeConnection.distance],
                             totalLength |-> Len(ls1) + Len(ls2)]))
            ELSE connectableLoop(significant, i, j + 1, connectable)

findConnectableLineStrings(lss) ==
    LET significant == SortByLengthDesc(significantOf(lss))
    IN connectableLoop(significant, 0, 1, <<>>)

\* reduce((longest, current) => current.length > longest.length ? current : longest)
\* (variant: on ties the last of the longest fragments wins)
RECURSIVE longestOfLast(_, _, _)
longestOfLast(lss, i, longest) ==
    IF ~(i < Len(lss))
    THEN longest
    ELSE longestOfLast(lss, i + 1,
                       IF Len(lss[i + 1]) >= Len(longest) THEN lss[i + 1] ELSE longest)

RECURSIVE longestOf(_, _, _)
longestOf(lss, i, longest) ==
    IF ~(i < Len(lss))
    THEN longest
    ELSE longestOf(lss, i + 1,
                   IF Len(lss[i + 1]) > Len(longest) THEN lss[i + 1] ELSE longest)

\* (variant: the pair of the smallest combined length wins)
RECURSIVE bestOfShortest(_, _, _)
bestOfShortest(connectable, i, best) ==
    IF ~(i < Len(connectable))
    THEN best
    ELSE bestOfShortest(connectable, i + 1,
                IF connectable[i + 1].totalLength < best.totalLength
                THEN connectable[i + 1] ELSE best)

\* reduce((best, current) => current.totalLength > best.totalLength ? current : best)
RECURSIVE bestOf(_, _, _)
bestOf(connectable, i, best) ==
    IF ~(i < Len(connectable))
    THEN best
    ELSE bestOf(connectable, i + 1,
                IF connectable[i + 1].totalLength > best.totalLength
                THEN connectable[i + 1] ELSE best)

\* (variant: the duplicate endpoint is kept in the end-start and end-end joins)
joinLineStringsKeepDuplicate(type, ls1, ls2) ==
    CASE type = "start-start" -> Reverse(ls1) \o Slice(ls2, 1)
      [] type = "start-end" -> ls2 \o Slice(ls1, 1)
      [] type = "end-start" -> ls1 \o ls2
      [] type = "end-end" -> ls1 \o Reverse(ls2)

\* the switch on the connection type
joinLineStrings(type, ls1, ls2) ==
    CASE type = "start-start" -> Reverse(ls1) \o Slice(ls2, 1)
      [] type = "start-end" -> ls2 \o Slice(ls1, 1)
      [] type = "end-start" -> ls1 \o Slice(ls2, 1)
      [] type = "end-end" -> ls1 \o Slice(Reverse(ls2), 1)

\* (variant: reduce with an empty route as the initial value)
reduceLongestOrEmpty(lss) ==
    IF Len(lss) = 0 THEN Returned(<<>>) ELSE Returned(longestOf(lss, 1, lss[1]))

\* lines 539-541: reduce without an initial value throws on an empty array
reduceLongest(lss) ==
    IF Len(lss) = 0 THEN Thrown ELSE Returned(longestOf(lss, 1, lss[1]))

\* stageName only feeds the log and is left out
connectLineStrings(lss, wps) ==
    LET connectable == findConnectableLineStrings(lss)
    IN IF Len(connectable) = 0
       THEN IF reduceLongest(lss).threw
            THEN Thrown
            ELSE IF ~wps.isNull /\ wps.hasFinish
            THEN validateRouteDirectionByFinish(reduceLongest(lss).value, wps.finish)
            ELSE reduceLongest(lss)
       ELSE LET bestConnection == bestOf(connectable, 1, connectable[1])
                ls1 == bestConnection.lineString1
                ls2 == bestConnection.lineString2
                connected == joinLineStrings(bestConnection.connection.type, ls1, ls2)
            IN IF ~wps.isNull /\ wps.hasFinish
               THEN validateRouteDirectionByFinish(connected, wps.finish)
               ELSE Returned(connected)

(***************************************************************************)
(* Stitching of up to MaxFragments fragments (and of three significant     *)
(* ones), in the given order and in the reverse order.  A fragment is a    *)
(* straight run of n points along one of four stretches of a line, in      *)
(* either direction: two stretches share the endpoint 200, two are 6 units *)
(* apart (200 and 206), two share 400, and the stretch 200..206 is itself  *)
(* shorter than the threshold; the first two and the last are far from     *)
(* each other.  n is 3 (the fragments of the documented scenario), 101     *)
(* (just above the significance threshold) or 202 (longer than two         *)
(* fragments of 101 points joined).  The unit of the raw numbers is the    *)
(* step here; the direction check only compares two distances, which no    *)
(* choice of unit changes.                                                 *)
(***************************************************************************)
Stretches ==
    {<<Pt(0, 0), Pt(200, 0)>>, <<Pt(200, 0), Pt(206, 0)>>,
     <<Pt(206, 0), Pt(400, 0)>>, <<Pt(400, 0), Pt(800, 0)>>}

FragmentLengths == {3, significantLength + 1, 2 * significantLength + 2}

Fragment(a, b, n) ==
    [i \in 1..n |->
        <<RAdd(a[1], RMul(RSub(b[1], a[1]), <<i - 1, n - 1>>)),
          RAdd(a[2], RMul(RSub(b[2], a[2]), <<i - 1, n - 1>>))>>]

Fragments ==
    {Fragment(e[1], e[2], n) : e \in Stretches, n \in FragmentLengths}
        \cup {Fragment(e[2], e[1], n) : e \in Stretches, n \in FragmentLengths}

StitchWaypoints ==
    {NullWaypoints} \cup {Waypoints(FALSE, NoPoint, TRUE, f) : f \in {Pt(0, 0), Pt(400, 0)}}

\* the fragments above the significance threshold, for the inputs of three
SignificantFragments == {f \in Fragments : Len(f) > significantLength}

InitStitch ==
    /\ pc = "stitch"
    /\ lineStrings \in SeqsUpTo(Fragments, MaxFragments) \cup [1..3 -> SignificantFragments]
    /\ waypoints \in StitchWaypoints
    /\ stitched = NoResult
    /\ stitchedSwapped = NoResult
    /\ coordinates = <<>>
    /\ options = [keepRollingStart |-> FALSE]
    /\ result = NoResult
    /\ finishWaypoint = NoPoint
    /\ once = NoResult
    /\ twice = NoResult
    /\ webMercator = <<>>
    /\ converted = <<>>
    /\ IdleFeature /\ IdleBatch /\ IdleMemory

ConnectLineStrings ==
    /\ pc = "stitch"
    /\ stitched' = connectLineStrings(lineStrings, waypoints)
    /\ pc' = "stitched"
    /\ UNCHANGED <<coordinates, waypoints, options, result, finishWaypoint, once,
                   twice, webMercator, converted, lineStrings, stitchedSwapped>>
    /\ UNCHANGED <<featureVars, batchVars, memoryVars>>

\* the same fragments supplied in the reverse input order
ConnectLineStringsSwapped ==
    /\ pc = "stitched"
    /\ stitchedSwapped' = connectLineStrings(Reverse(lineStrings), waypoints)
    /\ pc' = "stitchedBoth"
    /\ UNCHANGED <<coordinates, waypoints, options, result, finishWaypoint, once,
                   twice, webMercator, converted, lineStrings, stitched>>
    /\ UNCHANGED <<featureVars, batchVars, memoryVars>>

NextStitch == ConnectLineStrings \/ ConnectLineStringsSwapped

SpecStitch == InitStitch /\ [][NextStitch]_vars

\* two fragments A, B with A's last point B's first point, and a finish
\* waypoint on B's last point and farther from A's first point
EndStartPairWithFinish ==
    /\ Len(lineStrings) = 2
    /\ lineStrings[1][Len(lineStrings[1])] = lineStrings[2][1]
    /\ ~waypoints.isNull /\ waypoints.hasFinish
    /\ waypoints.finish = lineStrings[2][Len(lineStrings[2])]
    /\ waypoints.finish # lineStrings[1][1]

\* C2: two fragments that share an endpoint end-start (short ones included)
\* and a finish near the far end of the second are stitched and normalised
\* into len(A) + len(B) - 1 points from A's first to B's last point, and
\* the reverse input order gives the identical route.
C2_EndStartStitchOrderIndependent ==
    (pc = "stitchedBoth" /\ EndStartPairWithFinish)
        => /\ ~stitched.threw
           /\ stitched.value = lineStrings[1] \o Tail(lineStrings[2])
           /\ ~stitchedSwapped.threw
           /\ stitchedSwapped.value = stitched.value

(***************************************************************************)
(* The stitcher's contract, stated on the input fragments alone.           *)
(***************************************************************************)
Significant(ls) == Len(ls) > 100

\* the squared planar gap of two points is at most 10 * 10
Within10(p, q) == RLeq(calculateDistance(p, q), I(10 * 10))

CloseEnds(a, b) ==
    \E p \in {a[1], a[Len(a)]}, q \in {b[1], b[Len(b)]} : Within10(p, q)

\* the positions of the pairs of significant fragments with close endpoints
ConnectablePairs ==
    {ij \in (1..Len(lineStrings)) \X (1..Len(lineStrings)) :
        /\ ij[1] < ij[2]
        /\ Significant(lineStrings[ij[1]]) /\ Significant(lineStrings[ij[2]])
        /\ CloseEnds(lineStrings[ij[1]], lineStrings[ij[2]])}

TotalLength(ij) == Len(lineStrings[ij[1]]) + Len(lineStrings[ij[2]])

\* r is a and b laid end to end in some orientation, the first point of the
\* second piece dropped; or such a route reversed (by the normalisation)
IsJoinOf(r, a, b) ==
    \E a1 \in {a, Reverse(a)}, b1 \in {b, Reverse(b)}, r1 \in {r, Reverse(r)} :
        r1 = a1 \o Tail(b1) \/ r1 = b1 \o Tail(a1)

Stitched == pc \in {"stitched", "stitchedBoth"}

\* C11: when some pair of fragments of more than 100 points has endpoints
\* within 10 units, the stitched route is the join of exactly two fragments,
\* both of more than 100 points, whose combined point count is the largest
\* among such pairs; when there is no such pair nothing is joined: the
\* route is one of the fragments (possibly reversed by normalisation).
C11_JoinsLongestConnectablePair ==
    (Stitched /\ lineStrings # <<>>)
        => /\ ~stitched.threw
           /\ IF ConnectablePairs # {}
              THEN \E ij \in ConnectablePairs :
                      /\ \A kl \in ConnectablePairs : TotalLength(kl) <= TotalLength(ij)
                      /\ IsJoinOf(stitched.value, lineStrings[ij[1]], lineStrings[ij[2]])
                      /\ Len(stitched.value) = TotalLength(ij) - 1
              ELSE \E i \in 1..Len(lineStrings) :
                      stitched.value \in {lineStrings[i], Reverse(lineStrings[i])}

\* three significant fragments with connectable pairs of different combined
\* lengths; the longer pair has been joined
C11_Witness ==
    /\ Stitched
    /\ Len(lineStrings) = 3
    /\ \E ij \in ConnectablePairs, kl \in ConnectablePairs :
           /\ TotalLength(kl) < TotalLength(ij)
           /\ Len(stitched.value) = TotalLength(ij) - 1

(***************************************************************************)
(* The join of a pair.  With exactly two fragments, both significant, and  *)
(* no waypoints, connectLineStrings returns the join itself; lineString1   *)
(* is the longer fragment, the first of the input when both are as long.   *)
(***************************************************************************)
TwoSignificant ==
    /\ Len(lineStrings) = 2
    /\ Significant(lineStrings[1]) /\ Significant(lineStrings[2])
    /\ waypoints.isNull

PairA == IF Len(lineStrings[2]) > Len(lineStrings[1]) THEN lineStrings[2] ELSE lineStrings[1]
PairB == IF Len(lineStrings[2]) > Len(lineStrings[1]) THEN lineStrings[1] ELSE lineStrings[2]

ConnectionTypes == {"start-start", "start-end", "end-start", "end-end"}

\* the two endpoints a combination matches, of A and of B
MatchedEnds(type) ==
    CASE type = "start-start" -> <<PairA[1], PairB[1]>>
      [] type = "start-end" -> <<PairA[1], PairB[Len(PairB)]>>
      [] type = "end-start" -> <<PairA[Len(PairA)], PairB[1]>>
      [] type = "end-end" -> <<PairA[Len(PairA)], PairB[Len(PairB)]>>

\* the piece laid first and the piece laid second for a combination
Pieces(type) ==
    CASE type = "start-start" -> <<Reverse(PairA), PairB>>
      [] type = "start-end" -> <<PairB, PairA>>
      [] type = "end-start" -> <<PairA, PairB>>
      [] type = "end-end" -> <<PairA, Reverse(PairB)>>

TypesWithin10 ==
    {type \in ConnectionTypes : Within10(MatchedEnds(type)[1], MatchedEnds(type)[2])}

\* the route is the first piece followed by the second without its first
\* point, and the junction is made of the two matched endpoints
JoinedBy(type) ==
    LET first == Pieces(type)[1]
        second == Pieces(type)[2]
    IN /\ stitched.value = first \o Tail(second)
       /\ {first[Len(first)], second[1]} = {MatchedEnds(type)[1], MatchedEnds(type)[2]}

\* C12: the join of the pair (A, B) is reverse(A) + B[1:] for start-start,
\* B + A[1:] for start-end, A + B[1:] for end-start and A + reverse(B)[1:]
\* for end-end, the combination being one within the threshold; the route
\* has len(A) + len(B) - 1 points, and the last point of the first piece
\* and the dropped first point of the second are the two matched endpoints.
C12_JoinShapePerType ==
    (Stitched /\ TwoSignificant /\ TypesWithin10 # {})
        => /\ ~stitched.threw
           /\ \E type \in TypesWithin10 : JoinedBy(type)
           /\ Len(stitched.value) = Len(PairA) + Len(PairB) - 1

\* a pair whose only close combination is start-start (6 units apart), joined
C12_Witness ==
    /\ Stitched /\ TwoSignificant
    /\ TypesWithin10 = {"start-start"}
    /\ MatchedEnds("start-start")[1] # MatchedEnds("start-start")[2]
    /\ stitched.value = Reverse(PairA) \o Tail(PairB)

(***************************************************************************)
(* The combination used for a connectable pair.                            *)
(***************************************************************************)
GapOf(type) == calculateDistance(MatchedEnds(type)[1], MatchedEnds(type)[2])

BestTypes == {type \in ConnectionTypes : \A other \in ConnectionTypes : RLeq(GapOf(type), GapOf(other))}

\* C20: a pair of significant fragments is joined exactly when the smallest
\* of its four endpoint distances is at most 10, and the join is the one of
\* a combination of the smallest distance, also when several combinations
\* are within the threshold.
C20_BestCombinationUsed ==
    (Stitched /\ TwoSignificant)
        => /\ ~stitched.threw
           /\ IF \E type \in BestTypes : RLeq(GapOf(type), I(10 * 10))
              THEN \E type \in BestTypes : JoinedBy(type)
              ELSE stitched.value = PairA

(***************************************************************************)
(* validateRouteEndpoints.  The function returns nothing and only writes   *)
(* to the console; the value modelled is what it writes: whether the two   *)
(* distances are reported, and which of the two warnings is printed.       *)
(* Indexing coordinates[0] of an empty array throws.                       *)
(***************************************************************************)
\* (variant: the 10 m boundary warns)
exceedsMaxDistanceOrEqual(distance) == RLeq(I(10 * 10), distance)

\* lines 727-729: distance > maxDistance with maxDistance = 0.01 km, squared, in m^2
exceedsMaxDistance(distance) == RLess(I(10 * 10), distance)

\* (variant: without the guard for waypoints that are null, whose start
\* cannot be read)
validateRouteEndpointsNoNullGuard(coords, wps) ==
    IF wps.isNull
    THEN Thrown
    ELSE IF ~wps.hasStart \/ ~wps.hasFinish
    THEN Returned(NoValidation)
    ELSE IF Len(coords) = 0
    THEN Thrown
    ELSE LET routeStart == coords[1]
             routeEnd == coords[Len(coords)]
             officialStart == wps.start
             officialFinish == wps.finish
             routeStartLatLon == <<routeStart[2], routeStart[1]>>
             routeEndLatLon == <<routeEnd[2], routeEnd[1]>>
             officialStartLatLon == <<officialStart[2], officialStart[1]>>
             officialFinishLatLon == <<officialFinish[2], officialFinish[1]>>
             startDistance == calculateGPSDistance(routeStartLatLon, officialStartLatLon)
             endDistance == calculateGPSDistance(routeEndLatLon, officialFinishLatLon)
         IN Returned([reported |-> TRUE,
                      startWarning |-> exceedsMaxDistance(startDistance),
                      endWarning |-> exceedsMaxDistance(endDistance)])

validateRouteEndpoints(coords, wps) ==
    IF wps.isNull \/ ~wps.hasStart \/ ~wps.hasFinish
    THEN Returned(NoValidation)
    ELSE IF Len(coords) = 0
    THEN Thrown
    ELSE LET routeStart == coords[1]
             routeEnd == coords[Len(coords)]
             officialStart == wps.start
             officialFinish == wps.finish
             routeStartLatLon == <<routeStart[2], routeStart[1]>>
             routeEndLatLon == <<routeEnd[2], routeEnd[1]>>
             officialStartLatLon == <<officialStart[2], officialStart[1]>>
             officialFinishLatLon == <<officialFinish[2], officialFinish[1]>>
             startDistance == calculateGPSDistance(routeStartLatLon, officialStartLatLon)
             endDistance == calculateGPSDistance(routeEndLatLon, officialFinishLatLon)
         IN Returned([reported |-> TRUE,
                      startWarning |-> exceedsMaxDistance(startDistance),
                      endWarning |-> exceedsMaxDistance(endDistance)])

(***************************************************************************)
(* Endpoint validation of every route of up to MaxLen points taken on two  *)
(* parallels at 0, 10, 12 and 50 m from the origin, against waypoints at   *)
(* the origin, 10 m east of it and 3 m north of it.                        *)
(***************************************************************************)
ValidateGrid == {Pt(i, j) : i \in {0, 5, 6, 25}, j \in {0, 1}}

ValidateWaypoints ==
    {NullWaypoints}
        \cup {Waypoints(hs, IF hs THEN s ELSE NoPoint, hf, IF hf THEN f ELSE NoPoint) :
                 hs \in BOOLEAN, hf \in BOOLEAN,
                 s \in {Pt(0, 0), Pt(5, 0)}, f \in {Pt(0, 0), Pt(0, 1)}}

InitValidate ==
    /\ pc = "validate"
    /\ coordinates \in SeqsUpTo(ValidateGrid, MaxLen)
    /\ waypoints \in ValidateWaypoints
    /\ validation = Returned(NoValidation)
    /\ options = [keepRollingStart |-> FALSE]
    /\ result = NoResult
    /\ finishWaypoint = NoPoint
    /\ once = NoResult
    /\ twice = NoResult
    /\ webMercator = <<>>
    /\ converted = <<>>
    /\ lineStrings = <<>>
    /\ stitched = NoResult
    /\ stitchedSwapped = NoResult
    /\ feature = NoFeature
    /\ calls = <<>>
    /\ gpxCoordinates = NoResult
    /\ savedFiles = <<>>
    /\ processed = NoResult
    /\ IdleBatch /\ IdleMemory

ValidateRouteEndpoints ==
    /\ pc = "validate"
    /\ validation' = validateRouteEndpoints(coordinates, waypoints)
    /\ pc' = "validated"
    /\ UNCHANGED <<coordinates, waypoints, options, result, finishWaypoint, once,
                   twice, webMercator, converted, lineStrings, stitched,
                   stitchedSwapped, feature, calls, gpxCoordinates, savedFiles,
                   processed, batchVars, memoryVars>>

NextValidate == ValidateRouteEndpoints

SpecValidate == InitValidate /\ [][NextValidate]_vars

\* the squared great-circle distance of two [lon, lat] points, in m^2
SquaredMetres(p, q) == calculateGPSDistance(<<p[2], p[1]>>, <<q[2], q[1]>>)

BothReferences == ~waypoints.isNull /\ waypoints.hasStart /\ waypoints.hasFinish

\* C17: for a non-empty route validated against a start and a finish, the
\* start warning is raised exactly when the first point is more than 10 m
\* from the start and the end warning exactly when the last point is more
\* than 10 m from the finish, each whatever the other; a first point on the
\* start with a last point 50 m from the finish warns for the end only;
\* when the start or the finish is missing nothing is reported or warned.
C17_WarningsIffBeyond10m ==
    (pc = "validated" /\ coordinates # <<>>)
        => /\ ~validation.threw
           /\ IF BothReferences
              THEN /\ validation.value.reported
                   /\ validation.value.startWarning
                        <=> RLess(I(10 * 10), SquaredMetres(coordinates[1], waypoints.start))
                   /\ validation.value.endWarning
                        <=> RLess(I(10 * 10),
                                  SquaredMetres(coordinates[Len(coordinates)], waypoints.finish))
                   /\ (/\ coordinates[1] = waypoints.start
                       /\ SquaredMetres(coordinates[Len(coordinates)], waypoints.finish)
                            = I(50 * 50))
                        => (~validation.value.startWarning /\ validation.value.endWarning)
              ELSE validation.value = NoValidation

\* the documented scenario: first point on the start, last point 50 m from
\* the finish, warning for the end only
C17_Witness ==
    /\ pc = "validated"
    /\ BothReferences
    /\ Len(coordinates) >= 2
    /\ coordinates[1] = waypoints.start
    /\ SquaredMetres(coordinates[Len(coordinates)], waypoints.finish) = I(50 * 50)
    /\ validation = Returned([reported |-> TRUE, startWarning |-> FALSE, endWarning |-> TRUE])

(***************************************************************************)
(* processFeature.  The geometry comes in Web Mercator; after conversion   *)
(* the route is kept as points counted in steps from the origin, which is  *)
(* the conversion of Projected(0) (2.000000 E, 48.189686 N); a step is     *)
(* what three projected units come to in longitude, 27 * 10^-6 degree.     *)
(* The stitcher measures the raw degree values of the converted points: it *)
(* is handed the same points counted in degrees from the origin, one       *)
(* degree being 37037 steps (27 * 10^-6 degree to six digits).  The        *)
(* statements of processFeature are taken one at a time, pc naming the     *)
(* next one; calls is the list of the methods entered so far.              *)
(* gpxCoordinates is the route handed to createGPX and savedFiles the      *)
(* files written by saveGPX, each file being the route of its track.       *)
(***************************************************************************)
Projected(k) == <<222639 + 3 * k, 6138470>>
OutOfBounds == <<1113195, 6138470>>

LonOrigin == lonOfX(Projected(0)[1])
LatOrigin == latOfY(Projected(0)[2])
MicrodegreesPerStep == lonOfX(Projected(1)[1]) - lonOfX(Projected(0)[1])
StepsPerDegree == Degrees(1) \div MicrodegreesPerStep

\* a converted [lon, lat] of the tables, in steps from the origin
InSteps(p) ==
    <<Norm(p[1] - LonOrigin, MicrodegreesPerStep),
      Norm(p[2] - LatOrigin, MicrodegreesPerStep)>>

RouteInSteps(route) == [i \in 1..Len(route) |-> InSteps(route[i])]

\* a point in steps counted in degrees, and back
InDegrees(p) ==
    <<Norm(p[1][1], p[1][2] * StepsPerDegree), Norm(p[2][1], p[2][2] * StepsPerDegree)>>

FromDegrees(p) ==
    <<Norm(p[1][1] * StepsPerDegree, p[1][2]), Norm(p[2][1] * StepsPerDegree, p[2][2])>>

RouteInDegrees(route) == [i \in 1..Len(route) |-> InDegrees(route[i])]
RouteFromDegrees(route) == [i \in 1..Len(route) |-> FromDegrees(route[i])]

WaypointsInDegrees(wps) ==
    [isNull |-> wps.isNull, hasStart |-> wps.hasStart, start |-> InDegrees(wps.start),
     hasFinish |-> wps.hasFinish, finish |-> InDegrees(wps.finish)]

\* line 338
isMultiLineString(geometryType) == geometryType = "MultiLineString"

\* (variant: every other geometry is taken for a LineString)
isLineStringOrOther(geometryType) == geometryType # "MultiLineString"

\* line 347
isLineString(geometryType) == geometryType = "LineString"

\* (variant: endpoint validation ahead of rolling-start elimination)
nextStageValidateFirst(stage, geometryType) ==
    CASE stage = "checkGeometry" -> "fetchStageWaypoints"
      [] stage = "fetchStageWaypoints" -> "convert"
      [] stage = "convert" -> IF isMultiLineString(geometryType)
                              THEN "connectLineStrings"
                              ELSE "validateRouteDirectionByFinish"
      [] stage = "connectLineStrings" -> "validateRouteEndpoints"
      [] stage = "validateRouteDirectionByFinish" -> "validateRouteEndpoints"
      [] stage = "validateRouteEndpoints" -> "eliminateRollingStart"
      [] stage = "eliminateRollingStart" -> "createGPX"
      [] stage = "createGPX" -> "saveGPX"
      [] stage = "saveGPX" -> "done"

\* lines 327-375: the order of the statements of processFeature
nextStage(stage, geometryType) ==
    CASE stage = "checkGeometry" -> "fetchStageWaypoints"
      [] stage = "fetchStageWaypoints" -> "convert"
      [] stage = "convert" -> IF isMultiLineString(geometryType)
                              THEN "connectLineStrings"
                              ELSE "validateRouteDirectionByFinish"
      [] stage = "connectLineStrings" -> "eliminateRollingStart"
      [] stage = "validateRouteDirectionByFinish" -> "eliminateRollingStart"
      [] stage = "eliminateRollingStart" -> "validateRouteEndpoints"
      [] stage = "validateRouteEndpoints" -> "createGPX"
      [] stage = "createGPX" -> "saveGPX"
      [] stage = "saveGPX" -> "done"

\* line 346 on the converted fragments, the result brought back to steps
ResultFromDegrees(r) == IF r.threw THEN Thrown ELSE Returned(RouteFromDegrees(r.value))

connectConverted(fragments, wps) ==
    ResultFromDegrees(
        connectLineStrings([i \in 1..Len(fragments) |-> RouteInDegrees(fragments[i])],
                           WaypointsInDegrees(wps)))

(***************************************************************************)
(* The features processed.  Projected(k) is the point k steps east of the  *)
(* origin, OutOfBounds a point just east of 10 E that the conversion       *)
(* drops.  A LineString has up to MaxLen points; a MultiLineString has up  *)
(* to MaxFragments fragments among three short ones (one of them empty     *)
(* once converted) and three runs of 101 points: from step 0 to step 1,    *)
(* from step 2 to step 6 (3 projected units from the first run) and at     *)
(* step 6 (15 projected units from the first run).  The waypoints fetched  *)
(* are null (the request failed) or an object whose start (2 m or 8 m      *)
(* east of the origin) and finish (at the origin or 12 m east of it) may   *)
(* each be missing.  The coordinates of a feature are held as the list of *)
(* its line strings: the one of a LineString, the fragments of a           *)
(* MultiLineString.                                                        *)
(***************************************************************************)
FeaturePoints == {Projected(0), Projected(1), Projected(2), Projected(6), OutOfBounds}

Run(a, b) == [i \in 1..(significantLength + 1) |-> IF i <= 50 THEN a ELSE b]

FeatureFragments ==
    {<<OutOfBounds>>, <<Projected(0), Projected(1)>>, <<Projected(6)>>,
     Run(Projected(0), Projected(1)), Run(Projected(2), Projected(6)),
     Run(Projected(6), Projected(6))}

Features ==
    {NoFeature,
     [hasGeometry |-> TRUE, hasCoordinates |-> FALSE, type |-> "LineString",
      coordinates |-> <<>>],
     [hasGeometry |-> TRUE, hasCoordinates |-> TRUE, type |-> "Point",
      coordinates |-> <<<<Projected(0)>>>>]}
        \cup {[hasGeometry |-> TRUE, hasCoordinates |-> TRUE, type |-> "LineString",
               coordinates |-> <<c>>] : c \in SeqsUpTo(FeaturePoints, MaxLen)}
        \cup {[hasGeometry |-> TRUE, hasCoordinates |-> TRUE, type |-> "MultiLineString",
               coordinates |-> c] : c \in SeqsUpTo(FeatureFragments, MaxFragments)}

FeatureWaypoints ==
    {NullWaypoints}
        \cup {Waypoints(hs, IF hs THEN s ELSE NoPoint, hf, IF hf THEN f ELSE NoPoint) :
                 hs \in BOOLEAN, hf \in BOOLEAN,
                 s \in {Pt(1, 0), Pt(4, 0)}, f \in {Pt(0, 0), Pt(6, 0)}}

InitFeature ==
    /\ pc = "checkGeometry"
    /\ feature \in Features
    /\ options \in [keepRollingStart : BOOLEAN]
    /\ waypoints = NullWaypoints
    /\ coordinates = <<>>
    /\ converted = <<>>
    /\ lineStrings = <<>>
    /\ stitched = NoResult
    /\ once = NoResult
    /\ result = NoResult
    /\ validation = Returned(NoValidation)
    /\ calls = <<>>
    /\ gpxCoordinates = NoResult
    /\ savedFiles = <<>>
    /\ processed = NoResult
    /\ finishWaypoint = NoPoint
    /\ twice = NoResult
    /\ webMercator = <<>>
    /\ stitchedSwapped = NoResult
    /\ IdleBatch /\ IdleMemory

\* what no statement of processFeature touches
featureFrame == <<feature, options, finishWaypoint, twice, webMercator, stitchedSwapped, batchVars, memoryVars>>

\* an exception leaves processFeature: the promise is rejected
Reject ==
    /\ processed' = Thrown
    /\ pc' = "rejected"

\* lines 327-329
CheckGeometry ==
    /\ pc = "checkGeometry"
    /\ IF ~feature.hasGeometry \/ ~feature.hasCoordinates
       THEN Reject
       ELSE /\ pc' = nextStage(pc, feature.type)
            /\ UNCHANGED processed
    /\ UNCHANGED <<waypoints, coordinates, converted, lineStrings, stitched, once, result,
                   validation, calls, gpxCoordinates, savedFiles, featureFrame>>

\* lines 268-317: the start and the finish found among the points of the
\* stage, or null from the catch when the request failed
fetchStageWaypoints(failed, found) == IF failed THEN NullWaypoints ELSE found

\* line 332
FetchStageWaypoints ==
    /\ pc = "fetchStageWaypoints"
    /\ \E failed \in BOOLEAN, found \in FeatureWaypoints \ {NullWaypoints} :
          waypoints' = fetchStageWaypoints(failed, found)
    /\ calls' = Append(calls, "fetchStageWaypoints")
    /\ pc' = nextStage(pc, feature.type)
    /\ UNCHANGED <<coordinates, converted, lineStrings, stitched, once, result, validation,
                   gpxCoordinates, savedFiles, processed, featureFrame>>

\* lines 334-360: conversion of the LineString or of every fragment, or the
\* exception for another geometry type
FeatureConvert ==
    /\ pc = "convert"
    /\ IF isMultiLineString(feature.type)
       THEN /\ lineStrings' = [i \in 1..Len(feature.coordinates) |->
                                 RouteInSteps(convertWebMercatorToWGS84(feature.coordinates[i]))]
            /\ calls' = Append(calls, "convertWebMercatorToWGS84")
            /\ pc' = nextStage(pc, feature.type)
            /\ UNCHANGED <<converted, coordinates, processed>>
       ELSE IF isLineString(feature.type)
       THEN /\ converted' = convertWebMercatorToWGS84(feature.coordinates[1])
            /\ coordinates' = RouteInSteps(converted')
            /\ calls' = Append(calls, "convertWebMercatorToWGS84")
            /\ pc' = nextStage(pc, feature.type)
            /\ UNCHANGED <<lineStrings, processed>>
       ELSE /\ Reject
            /\ UNCHANGED <<lineStrings, converted, coordinates, calls>>
    /\ UNCHANGED <<waypoints, stitched, once, result, validation, gpxCoordinates,
                   savedFiles, featureFrame>>

\* line 346; connectLineStrings enters validateRouteDirectionByFinish itself
\* when there is a finish and a fragment
FeatureConnect ==
    /\ pc = "connectLineStrings"
    /\ stitched' = connectConverted(lineStrings, waypoints)
    /\ calls' = IF ~waypoints.isNull /\ waypoints.hasFinish /\ Len(lineStrings) > 0
                THEN calls \o <<"connectLineStrings", "validateRouteDirectionByFinish">>
                ELSE Append(calls, "connectLineStrings")
    /\ IF stitched'.threw
       THEN /\ Reject
            /\ UNCHANGED <<coordinates, once>>
       ELSE /\ coordinates' = stitched'.value
            /\ once' = stitched'
            /\ pc' = nextStage(pc, feature.type)
            /\ UNCHANGED processed
    /\ UNCHANGED <<waypoints, converted, lineStrings, result, validation, gpxCoordinates,
                   savedFiles, featureFrame>>

\* lines 354-357
FeatureDirection ==
    /\ pc = "validateRouteDirectionByFinish"
    /\ IF ~waypoints.isNull /\ waypoints.hasFinish
       THEN /\ once' = validateRouteDirectionByFinish(coordinates, waypoints.finish)
            /\ calls' = Append(calls, "validateRouteDirectionByFinish")
            /\ IF once'.threw
               THEN /\ Reject
                    /\ UNCHANGED coordinates
               ELSE /\ coordinates' = once'.value
                    /\ pc' = nextStage(pc, feature.type)
                    /\ UNCHANGED processed
       ELSE /\ once' = Returned(coordinates)
            /\ pc' = nextStage(pc, feature.type)
            /\ UNCHANGED <<calls, coordinates, processed>>
    /\ UNCHANGED <<waypoints, converted, lineStrings, stitched, result, validation,
                   gpxCoordinates, savedFiles, featureFrame>>

\* line 365
FeatureEliminate ==
    /\ pc = "eliminateRollingStart"
    /\ result' = eliminateRollingStart(coordinates, waypoints, options)
    /\ calls' = Append(calls, "eliminateRollingStart")
    /\ IF result'.threw
       THEN /\ Reject
            /\ UNCHANGED coordinates
       ELSE /\ coordinates' = result'.value
            /\ pc' = nextStage(pc, feature.type)
            /\ UNCHANGED processed
    /\ UNCHANGED <<waypoints, converted, lineStrings, stitched, once, validation,
                   gpxCoordinates, savedFiles, featureFrame>>

\* line 368: the value returned is not used
FeatureValidate ==
    /\ pc = "validateRouteEndpoints"
    /\ validation' = validateRouteEndpoints(coordinates, waypoints)
    /\ calls' = Append(calls, "validateRouteEndpoints")
    /\ IF validation'.threw
       THEN Reject
       ELSE /\ pc' = nextStage(pc, feature.type)
            /\ UNCHANGED processed
    /\ UNCHANGED <<waypoints, coordinates, converted, lineStrings, stitched, once, result,
                   gpxCoordinates, savedFiles, featureFrame>>

\* line 371: one trkpt for each point of coordinates, in order
FeatureCreateGPX ==
    /\ pc = "createGPX"
    /\ gpxCoordinates' = Returned(coordinates)
    /\ calls' = Append(calls, "createGPX")
    /\ pc' = nextStage(pc, feature.type)
    /\ UNCHANGED <<waypoints, coordinates, converted, lineStrings, stitched, once, result,
                   validation, savedFiles, processed, featureFrame>>

\* lines 374-386: the file is written and the summary returned (the number of
\* points and the geometry type among its fields)
FeatureSaveGPX ==
    /\ pc = "saveGPX"
    /\ savedFiles' = Append(savedFiles, gpxCoordinates.value)
    /\ calls' = Append(calls, "saveGPX")
    /\ processed' = Returned(<<Len(coordinates), feature.type>>)
    /\ pc' = nextStage(pc, feature.type)
    /\ UNCHANGED <<waypoints, coordinates, converted, lineStrings, stitched, once, result,
                   validation, gpxCoordinates, featureFrame>>

NextFeature ==
    \/ CheckGeometry
    \/ FetchStageWaypoints
    \/ FeatureConvert
    \/ FeatureConnect
    \/ FeatureDirection
    \/ FeatureEliminate
    \/ FeatureValidate
    \/ FeatureCreateGPX
    \/ FeatureSaveGPX

SpecFeature == InitFeature /\ [][NextFeature]_vars

(***************************************************************************)
(* Properties of processFeature.                                           *)
(***************************************************************************)
Called(name) == \E i \in 1..Len(calls) : calls[i] = name

IsMulti == feature.hasGeometry /\ feature.hasCoordinates /\ feature.type = "MultiLineString"
IsSingle == feature.hasGeometry /\ feature.hasCoordinates /\ feature.type = "LineString"

NothingWritten ==
    /\ gpxCoordinates = NoResult
    /\ savedFiles = <<>>
    /\ ~Called("createGPX") /\ ~Called("saveGPX")

\* C13: a MultiLineString with an empty list of fragments never gets past
\* the stitcher: processFeature ends by throwing, no route is produced and
\* nothing is serialised or written.
C13_EmptyFragmentSetFails ==
    (IsMulti /\ feature.coordinates = <<>>)
        => /\ pc \in {"checkGeometry", "fetchStageWaypoints", "convert",
                      "connectLineStrings", "rejected"}
           /\ pc = "rejected" => (processed = Thrown /\ Called("connectLineStrings"))
           /\ coordinates = <<>>
           /\ NothingWritten

C13_Witness ==
    /\ IsMulti /\ feature.coordinates = <<>>
    /\ pc = "rejected"
    /\ processed = Thrown
    /\ calls = <<"fetchStageWaypoints", "convertWebMercatorToWGS84", "connectLineStrings">>

\* C14: a feature without geometry, without coordinates, or of a type other
\* than LineString and MultiLineString is rejected before any conversion,
\* stitching, normalisation or trimming; createGPX and saveGPX are not
\* entered (only the waypoints may have been fetched).
C14_UnsupportedGeometryThrows ==
    ~(IsMulti \/ IsSingle)
        => /\ pc \in {"checkGeometry", "fetchStageWaypoints", "convert", "rejected"}
           /\ pc = "rejected" => processed = Thrown
           /\ \A i \in 1..Len(calls) : calls[i] = "fetchStageWaypoints"
           /\ coordinates = <<>> /\ converted = <<>> /\ lineStrings = <<>>
           /\ stitched = NoResult /\ once = NoResult /\ result = NoResult
           /\ NothingWritten

C14_Witness ==
    /\ feature.hasGeometry /\ feature.hasCoordinates /\ feature.type = "Point"
    /\ pc = "rejected"
    /\ processed = Thrown
    /\ calls = <<"fetchStageWaypoints">>

StageOrder ==
    <<"fetchStageWaypoints", "convertWebMercatorToWGS84", "connectLineStrings",
      "validateRouteDirectionByFinish", "eliminateRollingStart",
      "validateRouteEndpoints", "createGPX", "saveGPX">>

Position(name) == CHOOSE i \in 1..Len(StageOrder) : StageOrder[i] = name

\* C18: the methods are entered in the order conversion, stitching (for a
\* MultiLineString only, and every fragment has been converted before),
\* direction normalisation, rolling-start elimination, endpoint validation,
\* createGPX, saveGPX; a feature that is processed to the end went through
\* conversion, elimination, validation, createGPX and saveGPX; and the
\* route handed to createGPX and written is the one eliminateRollingStart
\* returned, whatever the validation reported.
C18_StageOrderAndGpxInput ==
    /\ \A i \in 1..(Len(calls) - 1) : Position(calls[i]) < Position(calls[i + 1])
    /\ Called("connectLineStrings")
         => (IsMulti /\ Len(lineStrings) = Len(feature.coordinates))
    /\ pc = "done"
         => /\ \A name \in {"convertWebMercatorToWGS84", "eliminateRollingStart",
                            "validateRouteEndpoints", "createGPX", "saveGPX"} : Called(name)
            /\ IsMulti => Called("connectLineStrings")
    /\ Called("createGPX") => (~result.threw /\ gpxCoordinates = result)
    /\ Called("saveGPX") => savedFiles = <<result.value>>

\* a LineString normalised, trimmed to a shorter route and written, with a
\* warning of the validation
C18_Witness ==
    /\ pc = "done"
    /\ calls = <<"fetchStageWaypoints", "convertWebMercatorToWGS84",
                 "validateRouteDirectionByFinish", "eliminateRollingStart",
                 "validateRouteEndpoints", "createGPX", "saveGPX">>
    /\ Len(result.value) < Len(once.value)
    /\ validation.value.endWarning
    /\ savedFiles = <<result.value>>

(***************************************************************************)
(* The stitcher's proximity test as the contract has it: on the projected  *)
(* coordinates of the feature, before any conversion.                      *)
(***************************************************************************)
ProjectedWithin10(a, b) ==
    /\ Abs(a[1] - b[1]) <= maxDistance
    /\ Abs(a[2] - b[2]) <= maxDistance
    /\ (a[1] - b[1]) * (a[1] - b[1]) + (a[2] - b[2]) * (a[2] - b[2])
           <= maxDistance * maxDistance

ProjectedCloseEnds(a, b) ==
    \E p \in {a[1], a[Len(a)]}, q \in {b[1], b[Len(b)]} : ProjectedWithin10(p, q)

SignificantRaw == {i \in 1..Len(feature.coordinates) :
                      Len(feature.coordinates[i]) > significantLength}

LongestConverted ==
    CHOOSE n \in {Len(lineStrings[i]) : i \in 1..Len(lineStrings)} :
        \A i \in 1..Len(lineStrings) : Len(lineStrings[i]) <= n

\* C19: when no two significant fragments of a MultiLineString have a pair
\* of endpoints within 10 projected units of each other, nothing is joined:
\* the route that leaves the stitcher is no longer than the longest
\* converted fragment.
C19_FarFragmentsNeverJoined ==
    (/\ IsMulti
     /\ Called("connectLineStrings")
     /\ ~stitched.threw
     /\ \A i \in SignificantRaw, j \in SignificantRaw :
            i # j => ~ProjectedCloseEnds(feature.coordinates[i], feature.coordinates[j]))
        => Len(stitched.value) <= LongestConverted

(***************************************************************************)
(* The degraded modes of processFeature.                                   *)
(***************************************************************************)
NoFinishReference == waypoints.isNull \/ ~waypoints.hasFinish
NoStartReference == waypoints.isNull \/ ~waypoints.hasStart

\* no two significant converted fragments have endpoints within the
\* stitcher's threshold, as the stitcher measures it
NoConnectablePair ==
    \A i \in 1..Len(lineStrings), j \in 1..Len(lineStrings) :
        (i < j /\ Significant(lineStrings[i]) /\ Significant(lineStrings[j]))
            => ~CloseEnds(RouteInDegrees(lineStrings[i]), RouteInDegrees(lineStrings[j]))

\* the route has left the normalisation (of the stitcher or of processFeature)
Normalised == pc \in {"eliminateRollingStart", "validateRouteEndpoints", "createGPX",
                      "saveGPX", "done"}
                  \/ Called("eliminateRollingStart")

DirectionLeftAsIs ==
    (Normalised /\ NoFinishReference)
        => /\ ~Called("validateRouteDirectionByFinish")
           /\ IsSingle => once = Returned(RouteInSteps(converted))

StartLeftAsIs ==
    (Called("eliminateRollingStart") /\ NoStartReference /\ once.value # <<>>)
        => result = once

FallbackToLongest ==
    (IsMulti /\ Normalised /\ NoConnectablePair)
        => \E i \in 1..Len(lineStrings) :
               /\ Len(lineStrings[i]) = LongestConverted
               /\ once.value \in {lineStrings[i], Reverse(lineStrings[i])}
               /\ NoFinishReference => once.value = lineStrings[i]

DegradedRouteCompletes ==
    (/\ Normalised
     /\ once.value # <<>>
     /\ NoFinishReference \/ NoStartReference \/ (IsMulti /\ NoConnectablePair))
        => pc # "rejected"

\* C15: with a non-empty route, a missing finish reference leaves the order
\* of the points as supplied or stitched, a missing start reference makes
\* eliminateRollingStart return its input, the absence of a connectable
\* pair yields the longest fragment, and in each of these cases
\* processFeature is not ended by an exception.
C15_DegradedModesNeverAbort ==
    /\ DirectionLeftAsIs
    /\ StartLeftAsIs
    /\ FallbackToLongest
    /\ DegradedRouteCompletes

(***************************************************************************)
(* extractStage and extractAllStages.  What the map service answers for a *)
(* layer is: a failed request, a document without a features member, or a  *)
(* list of up to MaxFeatures features.  Of a feature the model keeps its   *)
(* Etape property (the stage asked for, or OtherStage) and whether         *)
(* processFeature processes it or ends by throwing.                        *)
(***************************************************************************)
LastStage == 21
MaxFeatures == 2
MaxIrregular == 1

OtherStage == LastStage + 1

FeatureKinds(stage) == [Etape : {stage, OtherStage}, processes : BOOLEAN]

LayerOutcomes(stage) ==
    {[failed |-> TRUE, hasFeatures |-> FALSE, features |-> <<>>],
     [failed |-> FALSE, hasFeatures |-> FALSE, features |-> <<>>]}
        \cup {[failed |-> FALSE, hasFeatures |-> TRUE, features |-> f] :
                 f \in SeqsUpTo(FeatureKinds(stage), MaxFeatures)}

\* tryLayer2 / tryLayer1: a failed request is answered by { features: [] }
tryLayer(outcome) ==
    IF outcome.failed
    THEN [hasFeatures |-> TRUE, features |-> <<>>]
    ELSE [hasFeatures |-> outcome.hasFeatures, features |-> outcome.features]

\* line 42
needsLayer1(geoJsonData) ==
    ~geoJsonData.hasFeatures \/ Len(geoJsonData.features) = 0

\* lines 53-56
filterByStage(features, stage) ==
    IF stage # 0 /\ Len(features) > 1
    THEN SelectSeq(features, LAMBDA f : f.Etape = stage)
    ELSE features

\* lines 65-69: the summaries pushed before the loop ends, and whether it
\* ended by an exception of processFeature
RECURSIVE processLoop(_, _, _)
processLoop(features, i, acc) ==
    IF ~(i < Len(features))
    THEN Returned(acc)
    ELSE IF features[i + 1].processes
    THEN processLoop(features, i + 1, Append(acc, [stage |-> features[i + 1].Etape]))
    ELSE [threw |-> TRUE, value |-> acc]

\* lines 48-71, given the document of the layer that is used
processFeatures(features) ==
    IF Len(features) = 0
    THEN Thrown
    ELSE processLoop(features, 0, <<>>)

extractFrom(geoJsonData, stage) ==
    IF ~geoJsonData.hasFeatures
    THEN Thrown
    ELSE processFeatures(filterByStage(geoJsonData.features, stage))

\* lines 38-46: what the features of a stage can come to, over the answers
\* of the layers; the document of layer 2 is used when it has a feature,
\* and layer 1 is asked (and its document used) when it has none
OutcomesOver(answers, stage) ==
    {extractFrom(tryLayer(layer2), stage) :
        layer2 \in {l \in answers : ~needsLayer1(tryLayer(l))}}
      \cup IF \E layer2 \in answers : needsLayer1(tryLayer(layer2))
           THEN {extractFrom(tryLayer(layer1), stage) : layer1 \in answers}
           ELSE {}

StageOutcomes(stage) == OutcomesOver(LayerOutcomes(stage), stage)

\* what extractStage returns or throws: the summaries only when no
\* processFeature threw
outcomeOf(extracted) == IF extracted.threw THEN Thrown ELSE extracted

\* (variant: the loop over the stages ends at the first stage that fails)
continuesAfterSuccessOnly(extracted) == ~extracted.threw

\* lines 888-895: the try / catch lies inside the loop
continuesAfter(extracted) == TRUE

InitBatch ==
    /\ pc = "extractAllStages"
    /\ stageNumber = 1
    /\ stageResults = Returned(<<>>)
    /\ results = <<>>
    /\ errors = <<>>
    /\ savedFiles = <<>>
    /\ options = [keepRollingStart |-> FALSE]
    /\ coordinates = <<>>
    /\ waypoints = NullWaypoints
    /\ result = NoResult
    /\ finishWaypoint = NoPoint
    /\ once = NoResult
    /\ twice = NoResult
    /\ webMercator = <<>>
    /\ converted = <<>>
    /\ lineStrings = <<>>
    /\ stitched = NoResult
    /\ stitchedSwapped = NoResult
    /\ validation = Returned(NoValidation)
    /\ feature = NoFeature
    /\ calls = <<>>
    /\ gpxCoordinates = NoResult
    /\ processed = NoResult
    /\ IdleMemory

\* the stages before stageNumber that did not add exactly one summary of
\* their own stage
IrregularStages(upTo, summaries) ==
    {s \in 1..(upTo - 1) :
        Cardinality({i \in 1..Len(summaries) : summaries[i].stage = s}) # 1}

\* a stage that adds exactly one summary of its own stage
plainOutcome(extracted, stage) == extracted = Returned(<<[stage |-> stage]>>)

\* one iteration of the loop of extractAllStages, given what the features
\* of the stage came to; room tells whether one more stage may be irregular
StageIteration(extracted, room) ==
    /\ room \/ plainOutcome(extracted, stageNumber)
    /\ stageResults' = outcomeOf(extracted)
    /\ savedFiles' = savedFiles \o extracted.value
    /\ IF stageResults'.threw
       THEN /\ errors' = Append(errors, stageNumber)
            /\ results' = results
       ELSE /\ errors' = errors
            /\ results' = results \o stageResults'.value
    /\ stageNumber' = stageNumber + 1
    /\ pc' = IF continuesAfter(stageResults') THEN pc ELSE "thrown"

\* lines 887-896
ExtractNextStage ==
    /\ pc = "extractAllStages"
    /\ stageNumber <= LastStage
    /\ \E room \in {Cardinality(IrregularStages(stageNumber, results)) < MaxIrregular} :
          \E extracted \in StageOutcomes(stageNumber) : StageIteration(extracted, room)
    /\ UNCHANGED <<coordinates, waypoints, options, result, finishWaypoint, once, twice,
                   webMercator, converted, lineStrings, stitched, stitchedSwapped,
                   validation, feature, calls, gpxCoordinates, processed, memoryVars>>

\* lines 898-899
ReturnResults ==
    /\ pc = "extractAllStages"
    /\ ~(stageNumber <= LastStage)
    /\ pc' = "returned"
    /\ UNCHANGED <<coordinates, waypoints, options, result, finishWaypoint, once, twice,
                   webMercator, converted, lineStrings, stitched, stitchedSwapped,
                   featureVars, batchVars, memoryVars>>

NextBatch ==
    \/ ExtractNextStage
    \/ ReturnResults

SpecBatch == InitBatch /\ [][NextBatch]_vars

\* C16: every iteration of the batch loop moves on to the next stage,
\* whether the stage failed or not and whatever failed before: a stage
\* that fails is reported under its own number and adds nothing to the
\* results, a stage that succeeds adds exactly its summaries, in order;
\* the batch itself never throws and returns only after stage 21.
StageStep ==
    /\ pc = "extractAllStages"
    /\ pc' \in {"extractAllStages", "returned"}
    /\ pc' = "returned"
         => /\ stageNumber = LastStage + 1
            /\ UNCHANGED <<stageNumber, results, errors>>
    /\ pc' = "extractAllStages"
         => /\ stageNumber \in 1..LastStage
            /\ stageNumber' = stageNumber + 1
            /\ errors' = IF stageResults'.threw THEN errors \o <<stageNumber>> ELSE errors
            /\ results' = IF stageResults'.threw THEN results
                          ELSE results \o stageResults'.value
            /\ ~stageResults'.threw => Len(stageResults'.value) > 0

C16_StageFailureIsLocal == [][StageStep]_vars

\* the batch has returned: stage 3 alone failed, after writing a file, and
\* the stages after it were processed
C16_Witness ==
    /\ pc = "returned"
    /\ errors = <<3>>
    /\ results = [i \in 1..(LastStage - 1) |-> [stage |-> IF i < 3 THEN i ELSE i + 1]]
    /\ Len(savedFiles) = LastStage

(***************************************************************************)
(* The stitcher's output against its input fragments.                      *)
(***************************************************************************)
LongestLength ==
    CHOOSE n \in {Len(lineStrings[i]) : i \in 1..Len(lineStrings)} :
        \A i \in 1..Len(lineStrings) : Len(lineStrings[i]) <= n

\* C21: for a non-empty list of fragments the stitched route has at least
\* as many points as the longest fragment.
C21_AtLeastLongestFragment ==
    (Stitched /\ lineStrings # <<>>)
        => /\ ~stitched.threw
           /\ Len(stitched.value) >= LongestLength

\* the position of the first fragment of the greatest point count
FirstLongest ==
    CHOOSE k \in 1..Len(lineStrings) :
        /\ Len(lineStrings[k]) = LongestLength
        /\ \A i \in 1..(k - 1) : Len(lineStrings[i]) < LongestLength

FinishAvailable == ~waypoints.isNull /\ waypoints.hasFinish

\* the squared great-circle distance of a [lon, lat] point to the finish
\* of the waypoints
ToStageFinish(p) ==
    calculateGPSDistance(<<p[2], p[1]>>, <<waypoints.finish[2], waypoints.finish[1]>>)

\* the route, turned round when its first point is strictly nearer the
\* finish than its last
TowardsFinish(route) ==
    IF RLess(ToStageFinish(route[1]), ToStageFinish(route[Len(route)]))
    THEN Reverse(route)
    ELSE route

\* C22: without a connectable pair the stitched route is the first of the
\* fragments of the greatest point count (whether above the significance
\* threshold or not), normalised against the finish exactly when there is
\* a finish reference.
C22_FallbackIsFirstLongest ==
    (Stitched /\ lineStrings # <<>> /\ ConnectablePairs = {})
        => stitched = IF FinishAvailable
                      THEN Returned(TowardsFinish(lineStrings[FirstLongest]))
                      ELSE Returned(lineStrings[FirstLongest])

\* two different fragments of the same greatest length, below the
\* significance threshold; the first one is returned, reversed
C22_Witness ==
    /\ Stitched
    /\ Len(lineStrings) = 2
    /\ ConnectablePairs = {}
    /\ Len(lineStrings[1]) = Len(lineStrings[2])
    /\ ~Significant(lineStrings[1])
    /\ lineStrings[2] \notin {lineStrings[1], Reverse(lineStrings[1])}
    /\ FinishAvailable
    /\ stitched.value = Reverse(lineStrings[1])
    /\ stitched.value # lineStrings[1]

(***************************************************************************)
(* The projection fallback of rolling-start elimination, against the       *)
(* projection of the start waypoint on the route.                          *)
(***************************************************************************)
StartProjection == projectPointToLineString(waypoints.start, coordinates).value

\* the insertion index (0-based) for a projection: its segment index, plus
\* one when t is 0.5 or more
InsertionIndexOf(projection) ==
    IF RLess(projection.t, <<1, 2>>)
    THEN projection.segmentIndex
    ELSE projection.segmentIndex + 1

\* the route returned is the point followed by the trackpoints from the
\* index (0-based) to the end
PointThenFrom(point, index) ==
    /\ Len(result.value) = Len(coordinates) - index + 1
    /\ result.value[1] = point
    /\ \A i \in 2..Len(result.value) : result.value[i] = coordinates[index + i - 1]

ProjectedThenRest(projection) ==
    PointThenFrom(projection.point, InsertionIndexOf(projection))

Memory(h, r) == [heap |-> h, ref |-> r]

\* a new array: [], [...], and the result of slice and filter
allocate(m, array) == Memory(Append(m.heap, array), Len(m.heap) + 1)

\* (variant: the array itself instead of a copy of it)
copyOfNone(m) == m

\* a.slice() and [...a]: a new array with the elements of a
copyOf(m) == allocate(m, m.heap[m.ref])

\* a.slice(k): a new array
sliceFrom(m, k) == allocate(m, Slice(m.heap[m.ref], k))

\* a.reverse(): reverses a itself and returns it
reverseInPlace(m) == Memory([m.heap EXCEPT ![m.ref] = Reverse(@)], m.ref)

\* a.splice(k, 0, point): inserts into a itself
spliceInPlace(m, k, point) ==
    Memory([m.heap EXCEPT ![m.ref] = SubSeq(@, 1, k) \o <<point>> \o Slice(@, k)], m.ref)

\* [...a, ...b]: a new array
spread(m, a, b) == allocate(m, m.heap[a] \o m.heap[b])

\* the arrays that an array of references refers to
Contents(h, refs) == [i \in 1..Len(refs) |-> h[refs[i]]]

\* lines 598-616
validateRouteDirectionByFinishInMemory(m, finish) ==
    LET coords == m.heap[m.ref]
    IN IF Len(coords) = 0
       THEN Memory(m.heap, 0)
       ELSE LET routeStart == coords[1]
                routeEnd == coords[Len(coords)]
                officialFinish == <<finish[2], finish[1]>>
                startToFinishDistance ==
                    calculateGPSDistance(<<routeStart[2], routeStart[1]>>, officialFinish)
                endToFinishDistance ==
                    calculateGPSDistance(<<routeEnd[2], routeEnd[1]>>, officialFinish)
            IN IF startCloserToFinish(startToFinishDistance, endToFinishDistance)
               THEN reverseInPlace(copyOf(m))
               ELSE m

\* lines 674-683: [...coordinates], splice, slice
spliceAndTrimInMemory(m, insertionIndex, point) ==
    sliceFrom(spliceInPlace(copyOf(m), insertionIndex, point), insertionIndex)

\* lines 663-688, given the projection
insertProjectedStartInMemory(m, projection) ==
    IF projection.threw
    THEN Memory(m.heap, 0)
    ELSE spliceAndTrimInMemory(m,
             projection.value.segmentIndex + MathRound(projection.value.t),
             projection.value.point)

\* lines 663-695, given the result of the scan
trimFromInMemory(m, officialStart, trueStartIndex) ==
    IF trueStartIndex # -1
    THEN sliceFrom(m, trueStartIndex)
    ELSE insertProjectedStartInMemory(m,
             projectPointToLineString(officialStart, m.heap[m.ref]))

\* lines 622-696
eliminateRollingStartInMemory(m, wps, opts) ==
    LET coords == m.heap[m.ref]
        officialStartLatLon == <<wps.start[2], wps.start[1]>>
    IN IF opts.keepRollingStart \/ wps.isNull \/ ~wps.hasStart
       THEN m
       ELSE IF Len(coords) = 0
       THEN Memory(m.heap, 0)
       ELSE IF Within3m(calculateGPSDistance(<<coords[1][2], coords[1][1]>>,
                                             officialStartLatLon))
       THEN m
       ELSE trimFromInMemory(m, wps.start,
                             trueStartLoop(coords, officialStartLatLon, 0, Len(coords)))

\* lines 388-405: converted = [] and a push for every point kept
convertWebMercatorToWGS84InMemory(m) ==
    allocate(m, convertWebMercatorToWGS84(m.heap[m.ref]))

\* filter(ls => ls.length > 100): a new array of the same fragments
filterSignificant(m) ==
    allocate(m, SelectSeq(m.heap[m.ref], LAMBDA r : Len(m.heap[r]) > significantLength))

\* sort((a, b) => b.length - a.length) of an array of fragments: stable,
\* longest first
RECURSIVE insertRefByLength(_, _, _)
insertRefByLength(h, sorted, r) ==
    IF sorted = <<>> THEN <<r>>
    ELSE IF Len(h[Head(sorted)]) >= Len(h[r])
    THEN <<Head(sorted)>> \o insertRefByLength(h, Tail(sorted), r)
    ELSE <<r>> \o sorted

RECURSIVE sortRefsByLength(_, _)
sortRefsByLength(h, refs) ==
    IF refs = <<>> THEN <<>>
    ELSE insertRefByLength(h, sortRefsByLength(h, SubSeq(refs, 1, Len(refs) - 1)),
                           refs[Len(refs)])

\* a.sort(...): sorts a itself and returns it
sortInPlace(m) == Memory([m.heap EXCEPT ![m.ref] = sortRefsByLength(m.heap, @)], m.ref)

\* line 496
significantInMemory(m) == sortInPlace(filterSignificant(m))

\* lines 500-529: const connectable = [] and a push for every pair found,
\* each with its two fragments of the array significant
connectableInMemory(significant, connectable) ==
    allocate(significant,
             [k \in 1..Len(connectable) |->
                 [connectable[k] EXCEPT
                     !.lineString1 =
                         significant.heap[significant.ref][connectable[k].index1 + 1],
                     !.lineString2 =
                         significant.heap[significant.ref][connectable[k].index2 + 1]]])

\* lines 494-532
findConnectableLineStringsInMemory(m) ==
    connectableInMemory(significantInMemory(m),
                        findConnectableLineStrings(Contents(m.heap, m.heap[m.ref])))

\* lines 562-575
joinLineStringsInMemory(m, type, ls1, ls2) ==
    CASE type = "start-start" ->
             LET reversed == reverseInPlace(copyOf(Memory(m.heap, ls1)))
                 rest == sliceFrom(Memory(reversed.heap, ls2), 1)
             IN spread(rest, reversed.ref, rest.ref)
      [] type = "start-end" ->
             LET rest == sliceFrom(Memory(m.heap, ls1), 1)
             IN spread(rest, ls2, rest.ref)
      [] type = "end-start" ->
             LET rest == sliceFrom(Memory(m.heap, ls2), 1)
             IN spread(rest, ls1, rest.ref)
      [] type = "end-end" ->
             LET rest == sliceFrom(reverseInPlace(copyOf(Memory(m.heap, ls2))), 1)
             IN spread(rest, ls1, rest.ref)

\* lines 539-541: the fragment that reduce returns, the first of the array
\* that holds what longest holds
longestInMemory(h, refs, longest) ==
    refs[CHOOSE k \in 1..Len(refs) :
            /\ h[refs[k]] = longest
            /\ \A i \in 1..(k - 1) : h[refs[i]] # longest]

\* lines 537-549, no pair being connectable
connectLongestInMemory(m, refs, wps) ==
    IF Len(refs) = 0
    THEN Memory(m.heap, 0)
    ELSE IF ~wps.isNull /\ wps.hasFinish
    THEN validateRouteDirectionByFinishInMemory(
             Memory(m.heap, longestInMemory(m.heap, refs,
                                            reduceLongest(Contents(m.heap, refs)).value)),
             wps.finish)
    ELSE Memory(m.heap, longestInMemory(m.heap, refs,
                                        reduceLongest(Contents(m.heap, refs)).value))

\* lines 579-592, given the joined route
directConnectedInMemory(connected, wps) ==
    IF ~wps.isNull /\ wps.hasFinish
    THEN validateRouteDirectionByFinishInMemory(connected, wps.finish)
    ELSE connected

\* lines 558-592, given the best connection
connectBestInMemory(m, bestConnection, wps) ==
    directConnectedInMemory(
        joinLineStringsInMemory(m, bestConnection.connection.type,
                                bestConnection.lineString1, bestConnection.lineString2),
        wps)

\* lines 535-592, given the memory with the array connectable, and the
\* array of the fragments
connectFoundInMemory(found, refs, wps) ==
    IF Len(found.heap[found.ref]) = 0
    THEN connectLongestInMemory(found, refs, wps)
    ELSE connectBestInMemory(found,
                             bestOf(found.heap[found.ref], 1, found.heap[found.ref][1]),
                             wps)

\* lines 534-593
connectLineStringsInMemory(m, wps) ==
    connectFoundInMemory(findConnectableLineStringsInMemory(m), m.heap[m.ref], wps)

\* lines 698-738: reads the route and the waypoints, returns nothing
validateRouteEndpointsInMemory(m, wps) == Memory(m.heap, 0)

(***************************************************************************)
(* One call of each of the six functions on arrays in memory: a route of   *)
(* up to MaxLen points (projected ones for the conversion), or up to       *)
(* MaxFragments fragments and the array that holds them.  argument is the  *)
(* array passed, returned the array returned (0: none, or the call threw). *)
(***************************************************************************)
MemoryPoints == {Projected(0), Projected(1), OutOfBounds}

MemoryGrid == {Pt(0, 0), Pt(2, 0), Pt(MaxLon, 0), Pt(2, 1)}

MemoryWaypoints ==
    {Waypoints(TRUE, s, TRUE, f) : s \in {Pt(2, 0), Pt(MaxLon, 0)}, f \in {Pt(0, 0)}}

MemoryFragments == {f \in Fragments : Len(f) > significantLength \/ f[1] = Pt(0, 0)}

RouteInMemory(route) ==
    /\ heap = <<route>>
    /\ argument = 1

FragmentsInMemory(lss) ==
    /\ heap = Append(lss, [i \in 1..Len(lss) |-> i])
    /\ argument = Len(lss) + 1

InitMemory ==
    /\ \/ /\ pc = "call convertWebMercatorToWGS84"
          /\ \E route \in SeqsUpTo(MemoryPoints, MaxLen) : RouteInMemory(route)
          /\ waypoints = NullWaypoints
          /\ options = [keepRollingStart |-> FALSE]
       \/ /\ pc = "call findConnectableLineStrings"
          /\ \E lss \in SeqsUpTo(MemoryFragments, MaxFragments) : FragmentsInMemory(lss)
          /\ waypoints = NullWaypoints
          /\ options = [keepRollingStart |-> FALSE]
       \/ /\ pc = "call connectLineStrings"
          /\ \E lss \in SeqsUpTo(MemoryFragments, MaxFragments) : FragmentsInMemory(lss)
          /\ waypoints \in StitchWaypoints
          /\ options = [keepRollingStart |-> FALSE]
       \/ /\ pc = "call validateRouteDirectionByFinish"
          /\ \E route \in SeqsUpTo(MemoryGrid, MaxLen) : RouteInMemory(route)
          /\ waypoints \in MemoryWaypoints
          /\ options = [keepRollingStart |-> FALSE]
       \/ /\ pc = "call eliminateRollingStart"
          /\ \E route \in SeqsUpTo(MemoryGrid, MaxLen) : RouteInMemory(route)
          /\ waypoints \in {NullWaypoints} \cup MemoryWaypoints
          /\ options \in [keepRollingStart : BOOLEAN]
       \/ /\ pc = "call validateRouteEndpoints"
          /\ \E route \in SeqsUpTo(MemoryGrid, MaxLen) : RouteInMemory(route)
          /\ waypoints \in {NullWaypoints} \cup MemoryWaypoints
          /\ options = [keepRollingStart |-> FALSE]
    /\ returned = 0
    /\ coordinates = <<>>
    /\ result = NoResult
    /\ finishWaypoint = NoPoint
    /\ once = NoResult
    /\ twice = NoResult
    /\ webMercator = <<>>
    /\ converted = <<>>
    /\ lineStrings = <<>>
    /\ stitched = NoResult
    /\ stitchedSwapped = NoResult
    /\ IdleFeature /\ IdleBatch

\* the call returns: the memory it leaves and the array it returns
Return(m) ==
    /\ heap' = m.heap
    /\ returned' = m.ref
    /\ UNCHANGED <<argument, coordinates, waypoints, options, result, finishWaypoint,
                   once, twice, webMercator, converted, lineStrings, stitched,
                   stitchedSwapped, featureVars, batchVars>>

CallConvert ==
    /\ pc = "call convertWebMercatorToWGS84"
    /\ pc' = "convertWebMercatorToWGS84 returned"
    /\ Return(convertWebMercatorToWGS84InMemory(Memory(heap, argument)))

CallFindConnectable ==
    /\ pc = "call findConnectableLineStrings"
    /\ pc' = "findConnectableLineStrings returned"
    /\ Return(findConnectableLineStringsInMemory(Memory(heap, argument)))

CallConnect ==
    /\ pc = "call connectLineStrings"
    /\ pc' = "connectLineStrings returned"
    /\ Return(connectLineStringsInMemory(Memory(heap, argument), waypoints))

CallDirection ==
    /\ pc = "call validateRouteDirectionByFinish"
    /\ pc' = "validateRouteDirectionByFinish returned"
    /\ Return(validateRouteDirectionByFinishInMemory(Memory(heap, argument),
                                                     waypoints.finish))

CallEliminate ==
    /\ pc = "call eliminateRollingStart"
    /\ pc' = "eliminateRollingStart returned"
    /\ Return(eliminateRollingStartInMemory(Memory(heap, argument), waypoints, options))

CallValidate ==
    /\ pc = "call validateRouteEndpoints"
    /\ pc' = "validateRouteEndpoints returned"
    /\ Return(validateRouteEndpointsInMemory(Memory(heap, argument), waypoints))

NextMemory ==
    \/ CallConvert
    \/ CallFindConnectable
    \/ CallConnect
    \/ CallDirection
    \/ CallEliminate
    \/ CallValidate

SpecMemory == InitMemory /\ [][NextMemory]_vars

\* the fragments of the array of fragments passed, as the call found them
ArgumentFragments == Contents(heap, heap[argument])

\* what the function of the call returns for the arrays passed
ValueReturned ==
    CASE pc = "convertWebMercatorToWGS84 returned" ->
             Returned(convertWebMercatorToWGS84(heap[argument]))
      [] pc = "connectLineStrings returned" ->
             connectLineStrings(ArgumentFragments, waypoints)
      [] pc = "validateRouteDirectionByFinish returned" ->
             validateRouteDirectionByFinish(heap[argument], waypoints.finish)
      [] pc = "eliminateRollingStart returned" ->
             eliminateRollingStart(heap[argument], waypoints, options)

\* C24: no call changes an array that existed before it: every array of
\* the memory, the route or the fragments passed and the array of the
\* fragments among them, holds the same elements in the same order after
\* the call as before it; what the call returns is in an array of its own
\* or is one of the arrays passed, unchanged.
C24_InputsNotMutated ==
    [][\A r \in 1..Len(heap) : /\ Len(heap') >= Len(heap)
                               /\ heap'[r] = heap[r]]_vars

\* the array returned holds what the function returns
C24_ReturnedValue ==
    pc \in {"convertWebMercatorToWGS84 returned", "connectLineStrings returned",
            "validateRouteDirectionByFinish returned", "eliminateRollingStart returned"}
        => IF ValueReturned.threw
           THEN returned = 0
           ELSE returned # 0 /\ heap[returned] = ValueReturned.value

\* a start-start join with a finish behind it: the first fragment is
\* reversed for the join and the joined route is reversed again, both in
\* arrays of their own
C24_Witness ==
    /\ pc = "connectLineStrings returned"
    /\ Len(heap[argument]) = 2
    /\ returned > argument
    /\ \E r \in (argument + 1)..Len(heap) :
          /\ heap[r] = Reverse(heap[1])
          /\ heap[r] # heap[1]
    /\ \E r \in (argument + 1)..Len(heap) :
          /\ r # returned
          /\ heap[r] = Reverse(heap[returned])
          /\ heap[r] # heap[returned]

(***************************************************************************)
(* projectPointToLineString on every route of up to MaxLen grid points and *)
(* every grid point of the upper parallel as the point to project.         *)
(***************************************************************************)
InitProject ==
    /\ pc = "project"
    /\ coordinates \in SeqsUpTo(Grid, MaxLen)
    /\ waypoints \in {Waypoints(TRUE, Pt(i, 1), FALSE, NoPoint) : i \in 0..MaxLon}
    /\ options = [keepRollingStart |-> FALSE]
    /\ result = NoResult
    /\ finishWaypoint = NoPoint
    /\ once = NoResult
    /\ twice = NoResult
    /\ webMercator = <<>>
    /\ converted = <<>>
    /\ lineStrings = <<>>
    /\ stitched = NoResult
    /\ stitchedSwapped = NoResult
    /\ IdleFeature /\ IdleBatch /\ IdleMemory

\* line 669, the only call: the start waypoint projected on the route
ProjectPointToLineString ==
    /\ pc = "project"
    /\ once' = projectPointToLineString(waypoints.start, coordinates)
    /\ pc' = "projected"
    /\ UNCHANGED <<coordinates, waypoints, options, result, finishWaypoint, twice,
                   webMercator, converted, lineStrings, stitched, stitchedSwapped>>
    /\ UNCHANGED <<featureVars, batchVars, memoryVars>>

NextProject == ProjectPointToLineString

SpecProject == InitProject /\ [][NextProject]_vars

\* the scalar product (p - q) . (b - a), on the raw degree values
Along(p, q, a, b) ==
    RAdd(RMul(RSub(p[1], q[1]), RSub(b[1], a[1])),
         RMul(RSub(p[2], q[2]), RSub(b[2], a[2])))

\* q = a + t (b - a) is the clamped projection of p on the segment a b:
\* t is in [0, 1], and q is the foot of the perpendicular from p unless
\* that foot lies beyond the end at which q stops; a itself and t = 0 for
\* a segment of length zero
ClampedProjection(p, a, b, q, t) ==
    IF a = b
    THEN t = I(0) /\ q = a
    ELSE /\ RLeq(I(0), t) /\ RLeq(t, I(1))
         /\ q = <<RAdd(a[1], RMul(t, RSub(b[1], a[1]))),
                  RAdd(a[2], RMul(t, RSub(b[2], a[2])))>>
         /\ (t # I(0)) => RLeq(I(0), Along(p, q, a, b))
         /\ (t # I(1)) => RLeq(Along(p, q, a, b), I(0))

\* the projection on the segment k (0-based) of the route
OnSegmentK(k) ==
    projectPointToLineSegment(waypoints.start, coordinates[k + 1], coordinates[k + 2])

Projected2 == pc = "projected" /\ Len(coordinates) >= 2

\* C25: for a route of two or more points the function returns, with its
\* index and its t, the clamped projection on one of the segments; every
\* segment's projection is the clamped one, none of them is closer to the
\* point than the one returned, and those on the segments before it are
\* strictly farther.
C25_ClosestClampedProjection ==
    Projected2 =>
        /\ ~once.threw
        /\ once.value.segmentIndex \in 0..(Len(coordinates) - 2)
        /\ once.value.point = OnSegmentK(once.value.segmentIndex).point
        /\ once.value.t = OnSegmentK(once.value.segmentIndex).t
        /\ once.value.distance = SquaredMetres(waypoints.start, once.value.point)
        /\ \A k \in 0..(Len(coordinates) - 2) :
              /\ ClampedProjection(waypoints.start, coordinates[k + 1], coordinates[k + 2],
                                   OnSegmentK(k).point, OnSegmentK(k).t)
              /\ RLeq(once.value.distance,
                      SquaredMetres(waypoints.start, OnSegmentK(k).point))
              /\ (k < once.value.segmentIndex)
                     => RLess(once.value.distance,
                              SquaredMetres(waypoints.start, OnSegmentK(k).point))

\* two segments at exactly the same smallest distance, the first returned
C25_Witness ==
    /\ Projected2
    /\ Len(coordinates) = 3
    /\ coordinates[1] # coordinates[2]
    /\ coordinates[2] # coordinates[3]
    /\ SquaredMetres(waypoints.start, OnSegmentK(0).point)
           = SquaredMetres(waypoints.start, OnSegmentK(1).point)
    /\ once.value.segmentIndex = 0
    /\ once.value.distance # I(0)
    /\ once.value.t # I(0) /\ once.value.t # I(1)

\* C26: for a route of two or more points, whatever the start reference
\* and the option, the route returned is not empty, ends with the last
\* point of the route passed, and is a suffix of the route passed, or one
\* point followed by such a suffix (so at most one point more than passed).
C26_NonEmptySuffixSameEnd ==
    (pc = "trimmed" /\ Len(coordinates) >= 2) =>
        /\ ~result.threw
        /\ Len(result.value) >= 1
        /\ result.value[Len(result.value)] = coordinates[Len(coordinates)]
        /\ \E k \in 1..Len(coordinates) :
              \/ result.value = SubSeq(coordinates, k, Len(coordinates))
              \/ Tail(result.value) = SubSeq(coordinates, k, Len(coordinates))
        /\ Len(result.value) <= Len(coordinates) + 1

\* the start lies beyond the end of the route, more than 3 m from it: the
\* projection is the last point itself and is inserted before it
C26_Witness ==
    /\ FellBack
    /\ Len(coordinates) = 3
    /\ coordinates[2] # coordinates[3]
    /\ StartProjection.segmentIndex = 1
    /\ StartProjection.t = I(1)
    /\ result.value = <<coordinates[3], coordinates[3]>>

\* C27: the trim returns a route, and does not throw, for every route of
\* one or more points, a route of a single point more than 3 m from the
\* start waypoint included.
C27_NeverThrowsOnNonEmptyRoute ==
    (pc = "trimmed" /\ Len(coordinates) >= 1) => ~result.threw

(***************************************************************************)
(* Rolling-start elimination applied to its own output: every route of up  *)
(* to MaxLen grid points and every start waypoint, keepRollingStart unset. *)
(***************************************************************************)
InitTrimTwice ==
    /\ InitTrim
    /\ StartPresent
    /\ ~options.keepRollingStart

\* the route returned is passed again, with the same waypoints and options
EliminateRollingStartAgain ==
    /\ pc = "trimmed"
    /\ twice' = IF result.threw
                THEN Thrown
                ELSE eliminateRollingStart(result.value, waypoints, options)
    /\ pc' = "trimmedTwice"
    /\ UNCHANGED <<coordinates, waypoints, options, result, finishWaypoint, once,
                   webMercator, converted, lineStrings, stitched, stitchedSwapped>>
    /\ UNCHANGED <<featureVars, batchVars, memoryVars>>

NextTrimTwice == EliminateRollingStart \/ EliminateRollingStartAgain

SpecTrimTwice == InitTrimTwice /\ [][NextTrimTwice]_vars

\* C28: for a route of two or more points and any start waypoint, the
\* trim applied to its own result returns that result again, also after
\* the projection fallback with the projected point more than 3 m from
\* the start waypoint.
C28_TrimIdempotent ==
    (pc = "trimmedTwice" /\ Len(coordinates) >= 2) => twice = result

\* C29: the route passed to createGPX, and the track of every file that
\* saveGPX writes, has at least one point: a geometry of which the
\* conversion keeps no point is rejected, with or without waypoints.
C29_GpxRouteNeverEmpty ==
    /\ Called("createGPX") => Len(gpxCoordinates.value) >= 1
    /\ \A i \in 1..Len(savedFiles) : Len(savedFiles[i]) >= 1

\* the fetch of the waypoints failed
FetchFailed == Called("fetchStageWaypoints") /\ waypoints.isNull

\* the route as converted (LineString) or as stitched (MultiLineString)
AsProjectedOrStitched ==
    IF IsMulti
    THEN stitched.value
    ELSE RouteInSteps(convertWebMercatorToWGS84(feature.coordinates[1]))

\* C30: after a failed fetch the waypoints are null and processing goes
\* on: nothing is rejected but a geometry that is rejected anyway (a type
\* not supported, no fragment at all), the direction check is not entered,
\* the trim and the endpoint validation leave the route alone, and the
\* route passed to createGPX and written is the converted or stitched one.
C30_FetchFailureDoesNotAbort ==
    FetchFailed =>
        /\ (pc = "rejected") => /\ ~IsSingle
                                /\ ~(IsMulti /\ Len(feature.coordinates) > 0)
        /\ ~Called("validateRouteDirectionByFinish")
        /\ Called("eliminateRollingStart") => result = Returned(AsProjectedOrStitched)
        /\ Called("validateRouteEndpoints") => validation = Returned(NoValidation)
        /\ Called("createGPX") => gpxCoordinates = Returned(AsProjectedOrStitched)
        /\ (pc = "done") => savedFiles = <<AsProjectedOrStitched>>

\* two fragments joined and written with the waypoints missing
C30_Witness ==
    /\ FetchFailed
    /\ pc = "done"
    /\ IsMulti
    /\ Len(feature.coordinates) = 2
    /\ Len(stitched.value) > Len(lineStrings[1])
    /\ Len(stitched.value) > Len(lineStrings[2])
    /\ savedFiles = <<stitched.value>>

====
